---- MODULE Spec2Model ----
(***************************************************************************)
(* Model of the password safe: the key-recovery service (the two Supabase  *)
(* edge functions store-aadhaar-recovery and verify-aadhaar-recovery and   *)
(* the aadhaar_recovery table they share), the encryption codec of         *)
(* EncryptionService, and the vault that PasswordStorageService keeps in   *)
(* localStorage.                                                           *)
(*                                                                         *)
(* Strings the code takes apart (names, numbers, e-mail addresses, keys)   *)
(* are sequences of one-character strings; the date of birth, which the    *)
(* code only hashes, is a plain string.  A nullable column holds <<>> for  *)
(* null and <<v>> for the value v.                                         *)
(***************************************************************************)
EXTENDS Integers, Sequences, FiniteSets, TLC

(***************************************************************************)
(* Bounds of the model and constants of the program                        *)
(***************************************************************************)
\* The clock of the serial specification advances in steps of half a day, at
\* most MaxTicks times.
MaxTicks == 2

\* The clock of the concurrent specification advances in steps of a day, at
\* most MaxDays times.
MaxDays == 1

\* The quota of the rate limit (the literal 5 of the verify handler).
MaxAttempts == 5

\* CONSTRAINT max_recovery_attempts CHECK (recovery_attempts <= 5)
MaxRecoveryAttemptsCheck == 5

MsPerDay == 1000 * 60 * 60 * 24

TickMs == MsPerDay \div 2

\* The handler instances that may run at the same time.
Procs == {"p1", "p2"}

\* The one handler instance of the serial specification.
SerialProcs == {"p1"}

(***************************************************************************)
(* Characters and the string functions the handlers use                    *)
(***************************************************************************)
UpperCase ==
  << "A","B","C","D","E","F","G","H","I","J","K","L","M",
     "N","O","P","Q","R","S","T","U","V","W","X","Y","Z" >>

LowerCase ==
  << "a","b","c","d","e","f","g","h","i","j","k","l","m",
     "n","o","p","q","r","s","t","u","v","w","x","y","z" >>

Letters == {UpperCase[i] : i \in 1..26} \cup {LowerCase[i] : i \in 1..26}

Digits == {"0","1","2","3","4","5","6","7","8","9"}

\* The class \s of the regular expressions.
IsWhitespace(c) == c \in {" ", "\t", "\n"}

LowerChar(c) ==
  IF \E i \in 1..26 : UpperCase[i] = c
  THEN LowerCase[CHOOSE i \in 1..26 : UpperCase[i] = c]
  ELSE c

toLowerCase(s) == [i \in 1..Len(s) |-> LowerChar(s[i])]

RECURSIVE trimStart(_)
trimStart(s) ==
  IF s # <<>> /\ IsWhitespace(Head(s)) THEN trimStart(Tail(s)) ELSE s

RECURSIVE trimEnd(_)
trimEnd(s) ==
  IF s # <<>> /\ IsWhitespace(s[Len(s)])
  THEN trimEnd(SubSeq(s, 1, Len(s) - 1))
  ELSE s

trim(s) == trimEnd(trimStart(s))

\* name.toLowerCase().trim()
NormalizeName(name) == trim(toLowerCase(name))

IsNotWhitespace(c) == ~IsWhitespace(c)

\* aadhaarNumber.replace(/\s/g, '')
StripWhitespace(s) == SelectSeq(s, IsNotWhitespace)

\* /^[A-Za-z0-9._%+-]+@[A-Za-z0-9.-]+\.[A-Za-z]{2,}$/.test(s)
emailRegexTest(s) ==
  \E i \in 1..Len(s), j \in 1..Len(s) :
     /\ 1 < i /\ i + 1 < j
     /\ s[i] = "@" /\ s[j] = "."
     /\ \A k \in 1..(i - 1) : s[k] \in Letters \cup Digits \cup {".","_","%","+","-"}
     /\ \A k \in (i + 1)..(j - 1) : s[k] \in Letters \cup Digits \cup {".","-"}
     /\ Len(s) - j >= 2
     /\ \A k \in (j + 1)..Len(s) : s[k] \in Letters

\* /^\d{12}$/.test(s)
aadhaarRegexTest(s) == Len(s) = 12 /\ \A k \in 1..Len(s) : s[k] \in Digits

\* JSON.stringify of a string without characters to escape.
JSONstringify(s) == << "\"" >> \o s \o << "\"" >>

\* A string (a sequence of characters) that `!s` takes as false: the empty one.
Falsy(s) == Len(s) = 0

\* A date of birth that `dob ? :` and `&& dob` take as false: absent or empty.
NoDob(dob) == dob = ""

(***************************************************************************)
(* bcrypt: a hash carries its salt; compare re-hashes under that salt      *)
(***************************************************************************)
\* The salts bcrypt.genSalt(12) may return.
Salts == {"$2a$12$saltA"}

\* The hash string: the salt it was made under, then the digest of the value
\* (the model writes the value for its digest; no operator reads it back).
bcryptHash(value, salt) == << salt, value >>

bcryptCompare(value, hash) == bcryptHash(value, hash[1]) = hash

(***************************************************************************)
(* The requests the model sends                                            *)
(***************************************************************************)
GoodEmail == << "u","@","t","e","s","t",".","i","n" >>

\* The subject of the spec's end-to-end example, "u@test".
NoTldEmail == << "u","@","t","e","s","t" >>

Emails == {GoodEmail, NoTldEmail}

PaddedName == << " ","A","b" >>

Names == { PaddedName, << "a","b" >>, << "c","d" >> }

SpacedNumber == << "1","2","3","4"," ","5","6","7","8"," ","9","0","1","2" >>

ShortNumber == << "1","2","3","4","5" >>

\* "" is a request without a date of birth.
Dobs == {"", "01/01/1990", "02/02/1992"}

DecryptionKeys == { << "k","1" >>, << "k","2" >> }

\* Requests for the well-formed subject, and one request each for a subject
\* without a top-level domain and for an empty name.
VerificationRequests ==
  [userEmail : {GoodEmail}, name : Names,
   aadhaarNumber : {SpacedNumber, ShortNumber}, dob : Dobs]
  \cup { [userEmail |-> NoTldEmail, name |-> PaddedName,
          aadhaarNumber |-> SpacedNumber, dob |-> "01/01/1990"],
         [userEmail |-> GoodEmail, name |-> <<>>,
          aadhaarNumber |-> SpacedNumber, dob |-> ""] }

\* Requests the store handler accepts, and one request for each validation
\* it can fail.
AadhaarRecoveryDatas ==
  [userEmail : {GoodEmail}, name : Names, aadhaarNumber : {SpacedNumber},
   dob : Dobs, decryptionKey : DecryptionKeys]
  \cup { [userEmail |-> NoTldEmail, name |-> PaddedName,
          aadhaarNumber |-> SpacedNumber, dob |-> "01/01/1990",
          decryptionKey |-> << "k","1" >>],
         [userEmail |-> GoodEmail, name |-> PaddedName,
          aadhaarNumber |-> ShortNumber, dob |-> "",
          decryptionKey |-> << "k","1" >>],
         [userEmail |-> GoodEmail, name |-> <<>>,
          aadhaarNumber |-> SpacedNumber, dob |-> "",
          decryptionKey |-> << "k","1" >>] }

\* The requests of the concurrent specification: one registration, and the
\* verification that matches it and one that does not.
ConcurrentRecoveryDatas ==
  { [userEmail |-> GoodEmail, name |-> PaddedName, aadhaarNumber |-> SpacedNumber,
     dob |-> "01/01/1990", decryptionKey |-> << "k","1" >>] }

ConcurrentVerificationRequests ==
  [userEmail : {GoodEmail}, name : {PaddedName, << "c","d" >>},
   aadhaarNumber : {SpacedNumber}, dob : {"01/01/1990"}]

\* The requests of the re-registration specification: one person's
\* registration, another person's without and with a date of birth and under
\* another key, a registration the handler rejects, and the verifications with
\* the registered attributes.
ReRegisterAttributes ==
  { [userEmail |-> GoodEmail, name |-> PaddedName,
     aadhaarNumber |-> SpacedNumber, dob |-> "01/01/1990"],
    [userEmail |-> GoodEmail, name |-> << "c","d" >>,
     aadhaarNumber |-> SpacedNumber, dob |-> ""],
    [userEmail |-> GoodEmail, name |-> << "c","d" >>,
     aadhaarNumber |-> SpacedNumber, dob |-> "01/01/1990"] }

ReRegisterRecoveryDatas ==
  { [userEmail |-> a.userEmail, name |-> a.name,
     aadhaarNumber |-> a.aadhaarNumber, dob |-> a.dob,
     decryptionKey |-> IF a.name = PaddedName THEN << "k","1" >>
                                              ELSE << "k","2" >>] :
    a \in ReRegisterAttributes }
  \cup { [userEmail |-> GoodEmail, name |-> PaddedName,
          aadhaarNumber |-> ShortNumber, dob |-> "",
          decryptionKey |-> << "k","1" >>] }

ReRegisterVerificationRequests == ReRegisterAttributes

NoRequest ==
  [userEmail |-> <<>>, name |-> <<>>, aadhaarNumber |-> <<>>, dob |-> "",
   decryptionKey |-> <<>>]

(***************************************************************************)
(* Responses: the JSON body and the HTTP status.  attempts is the number   *)
(* the message text contains, <<>> when it contains none.                  *)
(***************************************************************************)
NoResponse == [status |-> 0, success |-> FALSE, message |-> "", attempts |-> <<>>]

OkResponse(message) ==
  [status |-> 200, success |-> TRUE, message |-> message, attempts |-> <<>>]

ErrorResponse(message) ==
  [status |-> 400, success |-> FALSE, message |-> message, attempts |-> <<>>]

MissingFields == ErrorResponse("Missing required fields")

NotFound == ErrorResponse("No recovery data found for this email")

RateLimited ==
  ErrorResponse("Too many recovery attempts. Please try again after 24 hours.")

InvalidEmail == ErrorResponse("Invalid email format")

InvalidAadhaar == ErrorResponse("Invalid Aadhaar number format")

Stored == OkResponse("Aadhaar recovery data stored successfully")

Verified ==
  OkResponse("Verification successful. Decryption key has been sent to your email.")

\* Variant of VerificationFailed: a wrong name gets a message of its own.
VerificationFailed_NamesField(c) ==
  [status |-> 400, success |-> FALSE,
   message |-> IF c.nameMatch
               THEN "Verification failed. N attempts remaining."
               ELSE "Name does not match. N attempts remaining.",
   attempts |-> << MaxAttempts - c.newAttempts >>]

\* throw new Error(`Verification failed. ${5 - newAttempts} attempts remaining.`)
\* c holds the handler's local variables.
VerificationFailed(c) ==
  [status |-> 400, success |-> FALSE,
   message |-> "Verification failed. N attempts remaining.",
   attempts |-> << MaxAttempts - c.newAttempts >>]

IsVerificationFailed(resp) ==
  resp.message = "Verification failed. N attempts remaining."

(***************************************************************************)
(* EncryptionService (src/lib/encryption.ts) and the CryptoJS functions it *)
(* calls.  A byte of a WordArray is a sequence of numbers: <<0, n>> is the *)
(* byte n, <<1, iv, i>> the i-th byte of the random IV number iv, and      *)
(* <<2, i, iv, Len(key), Len(padded)>> \o key \o block the i-th byte of    *)
(* the AES-CBC ciphertext of the padded plaintext under key and IV, block  *)
(* being the 16 bytes of the padded plaintext that byte i lies in.  A      *)
(* plaintext or a key string is a sequence of characters.                  *)
(***************************************************************************)
\* private static readonly CURRENT_VERSION = '2.0'
CURRENT_VERSION == << "2", ".", "0" >>

\* private static readonly ITERATIONS = 10000
ITERATIONS == 10000

\* iterations: 1000 of the prior version of encrypt and decrypt
PriorIterations == 1000

\* AES block size and the IV's size (128/8) in bytes.
BlockSizeBytes == 16

\* '\0', and a character outside ASCII.
NulChar == "NUL"
EAcute == "e-acute"

CodecChars ==
  { NulChar, EAcute, ".", "0", "1", "2", "3", "4", "5", "6", "7", "8", "9",
    "?", "a", "b", "c", "x", "[", "]", "{", "}", ":", ",", "\"", "\\",
    "i", "u", "n", "p", "s", "S", "l", "t", "e", "d", "_",
    "A", "m", "o", "r", "w", "y", "E", "@" }

\* The UTF-8 bytes of a character.
Utf8Bytes(ch) ==
  CASE ch = NulChar -> << 0 >>
    [] ch = EAcute -> << 195, 169 >>
    [] ch = "\"" -> << 34 >>
    [] ch = "," -> << 44 >>
    [] ch = "." -> << 46 >>
    [] ch = "0" -> << 48 >>
    [] ch = "1" -> << 49 >>
    [] ch = "2" -> << 50 >>
    [] ch = "3" -> << 51 >>
    [] ch = "4" -> << 52 >>
    [] ch = "5" -> << 53 >>
    [] ch = "6" -> << 54 >>
    [] ch = "7" -> << 55 >>
    [] ch = "8" -> << 56 >>
    [] ch = "9" -> << 57 >>
    [] ch = ":" -> << 58 >>
    [] ch = "?" -> << 63 >>
    [] ch = "@" -> << 64 >>
    [] ch = "A" -> << 65 >>
    [] ch = "E" -> << 69 >>
    [] ch = "S" -> << 83 >>
    [] ch = "[" -> << 91 >>
    [] ch = "\\" -> << 92 >>
    [] ch = "]" -> << 93 >>
    [] ch = "_" -> << 95 >>
    [] ch = "a" -> << 97 >>
    [] ch = "b" -> << 98 >>
    [] ch = "c" -> << 99 >>
    [] ch = "d" -> << 100 >>
    [] ch = "e" -> << 101 >>
    [] ch = "i" -> << 105 >>
    [] ch = "l" -> << 108 >>
    [] ch = "m" -> << 109 >>
    [] ch = "n" -> << 110 >>
    [] ch = "o" -> << 111 >>
    [] ch = "p" -> << 112 >>
    [] ch = "r" -> << 114 >>
    [] ch = "s" -> << 115 >>
    [] ch = "t" -> << 116 >>
    [] ch = "u" -> << 117 >>
    [] ch = "w" -> << 119 >>
    [] ch = "x" -> << 120 >>
    [] ch = "y" -> << 121 >>
    [] ch = "{" -> << 123 >>
    [] ch = "}" -> << 125 >>

\* CryptoJS.enc.Utf8.parse: the bytes of a string.
RECURSIVE Utf8parse(_)
Utf8parse(str) ==
  IF str = << >> THEN << >>
  ELSE IF Len(str) = 1 THEN Utf8Bytes(str[1])
  ELSE LET half == Len(str) \div 2
       IN Utf8parse(SubSeq(str, 1, half))
          \o Utf8parse(SubSeq(str, half + 1, Len(str)))

\* The characters that one byte is the UTF-8 of.
CharsOfByte ==
  [b \in 0..255 |-> { ch \in CodecChars : Utf8Bytes(ch) = << b >> }]

\* CryptoJS.enc.Utf8.stringify: << the string >>, or << >> when the bytes are
\* not UTF-8 ('Malformed UTF-8 data').  A character starts at every byte that
\* is not a continuation byte (10xxxxxx) and takes the bytes up to the next.
Utf8stringify(bytes) ==
  LET n == Len(bytes)
      starts == SelectSeq([i \in 1..n |-> i],
                          LAMBDA i : bytes[i] < 128 \/ bytes[i] >= 192)
      Piece(k) == SubSeq(bytes, starts[k],
                         IF k < Len(starts) THEN starts[k + 1] - 1 ELSE n)
      Chars(k) == IF Len(Piece(k)) = 1 THEN CharsOfByte[Piece(k)[1]]
                  ELSE { ch \in CodecChars : Utf8Bytes(ch) = Piece(k) }
  IN IF n = 0 THEN << << >> >>
     ELSE IF starts = << >> \/ starts[1] # 1 THEN << >>
     ELSE IF \E k \in 1..Len(starts) : Chars(k) = { } THEN << >>
     ELSE << [k \in 1..Len(starts) |-> CHOOSE ch \in Chars(k) : TRUE] >>

\* String.prototype.padEnd(targetLength, padString) with a one-character pad.
RECURSIVE padEnd(_, _, _)
padEnd(str, targetLength, ch) ==
  IF Len(str) >= targetLength THEN str
  ELSE padEnd(Append(str, ch), targetLength, ch)

PlainByte(n) == << 0, n >>

IvByte(iv, i) == << 1, iv, i >>

\* The place before the block that byte i lies in.
BlockStart(i) == BlockSizeBytes * ((i - 1) \div BlockSizeBytes)

CipherByte(key, iv, padded, i) ==
  << 2, i, iv, Len(key), Len(padded) >> \o key
  \o SubSeq(padded, BlockStart(i) + 1, BlockStart(i) + BlockSizeBytes)

\* The WordArray of a sequence of byte values.
PlainBytes(bytes) == [i \in 1..Len(bytes) |-> PlainByte(bytes[i])]

\* CryptoJS.lib.WordArray.random(128/8), the iv-th outcome.
RandomIv(iv) == [i \in 1..BlockSizeBytes |-> IvByte(iv, i)]

\* combined.words.length: the 32-bit words that hold the bytes.
WordsLength(wa) == (Len(wa) + 3) \div 4

\* CryptoJS.lib.WordArray.create(wa.words.slice(from, to)): whole words, the
\* unused bytes of the last word being 0; sigBytes is 4 times the word count.
WordsSlice(wa, from, to) ==
  LET last == IF to < WordsLength(wa) THEN to ELSE WordsLength(wa)
      n == IF last > from THEN 4 * (last - from) ELSE 0
  IN [i \in 1..n |->
        IF 4 * from + i <= Len(wa) THEN wa[4 * from + i] ELSE PlainByte(0)]

\* A character of a Base64 string: its place in the group of four and the
\* (up to three) bytes the group encodes; '=' fills the last group.
Base64Char(pos, group) == [pos |-> pos, group |-> group]

PaddingChar == [pos |-> 0, group |-> << >>]

\* CryptoJS.enc.Base64.stringify: 3 bytes make 4 characters, a last group of
\* 1 or 2 bytes makes 2 or 3 characters and padding.
Base64stringify(wa) ==
  LET n == Len(wa)
      Group(g) == SubSeq(wa, 3 * (g - 1) + 1, IF 3 * g < n THEN 3 * g ELSE n)
      Char(c) ==
        LET g == ((c - 1) \div 4) + 1
            pos == ((c - 1) % 4) + 1
        IN IF pos <= Len(Group(g)) + 1 THEN Base64Char(pos, Group(g))
                                       ELSE PaddingChar
  IN [c \in 1..(4 * ((n + 2) \div 3)) |-> Char(c)]

\* CryptoJS.enc.Base64.parse: the characters before the first '=', every
\* character but the first of a group of four completing one byte.
Base64parse(str) ==
  LET pads == { i \in 1..Len(str) : str[i] = PaddingChar }
      len == IF pads = { } THEN Len(str)
             ELSE (CHOOSE i \in pads : \A j \in pads : i <= j) - 1
      n == len - ((len + 3) \div 4)
      At(k) == k + ((k - 1) \div 3) + 1
  IN [k \in 1..n |-> str[At(k)].group[(At(k) - 1) % 4]]

\* CryptoJS.pad.Pkcs7.pad on a sequence of byte values.
Pkcs7pad(bytes) ==
  LET n == BlockSizeBytes - (Len(bytes) % BlockSizeBytes)
  IN bytes \o [i \in 1..n |-> n]

\* Variant of Pkcs7unpad: the padding left in place.
Pkcs7unpad_KeepPadding(bytes) == [sigBytes |-> Len(bytes), bytes |-> bytes]

\* CryptoJS.pad.Pkcs7.unpad: sigBytes less the value of the last byte, which
\* is not checked; the bytes are read only when sigBytes > 0.
Pkcs7unpad(bytes) ==
  LET n == IF bytes = << >> THEN 0 ELSE bytes[Len(bytes)]
      sig == Len(bytes) - n
  IN [sigBytes |-> sig,
      bytes |-> IF sig > 0 THEN SubSeq(bytes, 1, sig) ELSE << >>]

\* CryptoJS.PBKDF2(password, salt, {keySize: 256/32, iterations}): a key that
\* is the same for the same inputs and different for different ones.
PBKDF2(password, salt, iterations) ==
  LET pw == Utf8parse(password)
  IN << iterations, Len(pw) >> \o pw \o Utf8parse(salt)

\* CryptoJS.AES.encrypt(data, key, {iv, mode: CBC, padding: Pkcs7}).ciphertext
AESencrypt(data, key, iv) ==
  LET padded == Pkcs7pad(data)
  IN [i \in 1..Len(padded) |-> CipherByte(key, iv, padded, i)]

\* The padded plaintext inside the bytes of a ciphertext.
PaddedOf(ciphertext) ==
  LET t == ciphertext[1]
  IN [m \in 1..Len(ciphertext) |->
        ciphertext[BlockStart(m) + 1][5 + t[4] + m - BlockStart(m)]]

\* The bytes are the whole ciphertext made under this key and this IV.
IsCiphertextUnder(ciphertext, key, iv) ==
  /\ Len(ciphertext) >= 1
  /\ ciphertext[1][1] = 2
  /\ LET t == ciphertext[1]
         k == SubSeq(t, 6, 5 + t[4])
     IN /\ k = key
        /\ iv = RandomIv(t[3])
        /\ Len(ciphertext) = t[5]
        /\ \A i \in 1..Len(ciphertext) :
              /\ Len(ciphertext[i]) = Len(t)
              /\ SubSeq(ciphertext[i], 1, 5 + t[4])
                   = << 2, i, t[3], t[4], t[5] >> \o k
              /\ SubSeq(ciphertext[i], 6 + t[4], Len(t))
                   = SubSeq(ciphertext[BlockStart(i) + 1], 6 + t[4], Len(t))

\* What the block cipher can give for bytes that are not a ciphertext under
\* the key and IV at hand: a last byte above the length, bytes that are not
\* UTF-8, and bytes that are.
GarbageOutputs(n) ==
  { [i \in 1..n |-> 200],
    [i \in 1..n |-> IF i = n THEN 1 ELSE 200],
    [i \in 1..n |-> IF i = n THEN n - 1 ELSE 63] }

\* CryptoJS.AES.decrypt({ciphertext}, key, {iv, mode: CBC, padding: Pkcs7}):
\* the outcomes it can have, each a sigBytes and the bytes.
AESdecrypt(ciphertext, key, iv) ==
  IF ciphertext = << >> THEN { Pkcs7unpad(<< >>) }
  ELSE IF IsCiphertextUnder(ciphertext, key, iv)
  THEN { Pkcs7unpad(PaddedOf(ciphertext)) }
  ELSE { Pkcs7unpad(g) : g \in GarbageOutputs(Len(ciphertext)) }

\* The outcome of a call: the value returned or the message of the Error thrown.
Return(value) == [ok |-> TRUE, value |-> value, error |-> ""]

Throw(message) == [ok |-> FALSE, value |-> << >>, error |-> message]

\* encrypt after its validation: the Base64 of version, IV and ciphertext, iv
\* being the outcome of WordArray.random.
EncryptCombined(data, encryptionKey, iv) ==
  LET key == PBKDF2(encryptionKey.key, encryptionKey.salt, ITERATIONS)
      ciphertext == AESencrypt(Utf8parse(data), key, iv)
      version == IF Falsy(encryptionKey.version) THEN << "1", ".", "0" >>
                 ELSE encryptionKey.version
      versionBytes == PlainBytes(Utf8parse(padEnd(version, 4, NulChar)))
      combined == versionBytes \o RandomIv(iv) \o ciphertext
  IN Base64stringify(combined)

\* EncryptionService.encrypt
encrypt(data, encryptionKey, iv) ==
  IF Falsy(data) \/ Falsy(encryptionKey.key) \/ Falsy(encryptionKey.salt)
  THEN Throw("Failed to encrypt data")
  ELSE Return(EncryptCombined(data, encryptionKey, iv))

\* if (combined.words.length >= 5)
HasVersionInfo(combined) == WordsLength(combined) >= 5

\* The locals of EncryptionService.decrypt up to the call of AES.decrypt.
DecryptLocals(encryptedData, encryptionKey) ==
  LET combined == Base64parse(encryptedData)
      n == WordsLength(combined)
  IN [combined |-> combined,
      versionBytes |-> IF HasVersionInfo(combined)
                       THEN WordsSlice(combined, 0, 1) ELSE << >>,
      iv |-> IF HasVersionInfo(combined) THEN WordsSlice(combined, 1, 5)
             ELSE WordsSlice(combined, 0, 4),
      ciphertext |-> IF HasVersionInfo(combined) THEN WordsSlice(combined, 5, n)
                     ELSE WordsSlice(combined, 4, n),
      key |-> PBKDF2(encryptionKey.key, encryptionKey.salt, ITERATIONS)]

\* CryptoJS.enc.Utf8.stringify(versionBytes) can throw: it does for bytes that
\* are not UTF-8, and random bytes may or may not be.
VersionCanThrow(versionBytes) ==
  \/ \E i \in 1..Len(versionBytes) : versionBytes[i][1] # 0
  \/ Utf8stringify([i \in 1..Len(versionBytes) |-> versionBytes[i][2]]) = << >>

VersionCanPass(versionBytes) ==
  \/ \E i \in 1..Len(versionBytes) : versionBytes[i][1] # 0
  \/ Utf8stringify([i \in 1..Len(versionBytes) |-> versionBytes[i][2]]) # << >>

\* The end of decrypt, from the check of sigBytes on.
DecryptFinish(decrypted) ==
  IF decrypted.sigBytes <= 0
  THEN Throw("Invalid encrypted data or wrong key")
  ELSE LET decryptedString == Utf8stringify(decrypted.bytes)
       IN IF decryptedString = << >> THEN Throw("Malformed UTF-8 data")
          ELSE IF Falsy(decryptedString[1])
          THEN Throw("Decryption resulted in empty data")
          ELSE Return(decryptedString[1])

\* EncryptionService.decrypt: the outcomes the call can have.
decrypt(encryptedData, encryptionKey) ==
  IF Falsy(encryptedData) \/ Falsy(encryptionKey.key) \/ Falsy(encryptionKey.salt)
  THEN { Throw("Invalid decryption parameters") }
  ELSE LET l == DecryptLocals(encryptedData, encryptionKey)
       IN (IF VersionCanThrow(l.versionBytes)
           THEN { Throw("Malformed UTF-8 data") } ELSE { })
          \cup
          (IF VersionCanPass(l.versionBytes)
           THEN { DecryptFinish(d) : d \in AESdecrypt(l.ciphertext, l.key, l.iv) }
           ELSE { })

\* encrypt of the prior version of the service: PBKDF2 with 1000 iterations,
\* then CryptoJS.AES.encrypt(data, key.toString()), which takes the string for
\* a passphrase, derives key and IV from it and a random 8-byte salt, and
\* writes 'Salted__', the salt and the ciphertext.
encryptPrior(data, encryptionKey, salt) ==
  LET key == PBKDF2(encryptionKey.key, encryptionKey.salt, PriorIterations)
      derived == << 0, salt >> \o key
      header == PlainBytes(Utf8parse(<< "S", "a", "l", "t", "e", "d", "_", "_" >>))
                \o [i \in 1..8 |-> << 3, salt, i >>]
  IN Return(Base64stringify(
       header \o AESencrypt(Utf8parse(data), derived, 100 + salt)))

\* The envelope that the legacy branch of decrypt takes apart: the IV in
\* words 0..3, the ciphertext from word 4 on, no version word.
legacyEnvelope(data, encryptionKey, iv) ==
  LET key == PBKDF2(encryptionKey.key, encryptionKey.salt, ITERATIONS)
  IN Return(Base64stringify(
       RandomIv(iv) \o AESencrypt(Utf8parse(data), key, iv)))

(***************************************************************************)
(* The inputs of the codec                                                 *)
(***************************************************************************)
\* The longest plaintext: one that fills a block, so that padding adds one.
MaxPlainLen == 16

Plaintexts ==
  { << >>, << "x" >>, << "x", EAcute >>, [i \in 1..MaxPlainLen |-> "x"] }

\* A key as generateKey returns it.
BaseKey ==
  [key |-> << "a", "1" >>, salt |-> << "0", "c" >>, timestamp |-> 1,
   version |-> CURRENT_VERSION]

\* The key, and keys that differ from it in one field each: another secret,
\* another salt, another timestamp, no version (a key file of the prior
\* version), a version longer than four characters, an empty secret.
EncryptionKeys ==
  { BaseKey,
    [BaseKey EXCEPT !.key = << "b", "2" >>],
    [BaseKey EXCEPT !.salt = << "1", "d" >>],
    [BaseKey EXCEPT !.timestamp = 2],
    [BaseKey EXCEPT !.version = << >>],
    [BaseKey EXCEPT !.version = << "2", ".", "0", ".", "1" >>],
    [BaseKey EXCEPT !.key = << >>] }

\* The outcomes of WordArray.random the model draws from.
Ivs == { 1, 2 }

\* The lengths a stored envelope of n characters is cut to.
TruncatedLengths(n) == { 0, 4, n - 24, n - 1 } \cap (0..(n - 1))

\* One run of the codec: the plaintext and key, the encoder used, the
\* envelope, the key handed to decrypt and its outcome.
CryptoIdle ==
  [pc |-> "idle", data |-> << >>, encryptionKey |-> BaseKey, encoder |-> "none",
   encrypted |-> Throw(""), truncated |-> FALSE,
   decryptionKey |-> BaseKey, decrypted |-> Throw("")]

(***************************************************************************)
(* JSON.stringify and JSON.parse on a vault.  Of a Password the model      *)
(* keeps id, name and updatedAt; username, password, url, notes, category  *)
(* and createdAt are copied by the code exactly as name is.  A vault whose *)
(* userEmail is undefined has no such member in its text.                  *)
(***************************************************************************)
Quote == "\""

Backslash == "\\"

PasswordsMember == << "p", "a", "s", "s", "w", "o", "r", "d", "s" >>

LastSyncMember == << "l", "a", "s", "t", "S", "y", "n", "c" >>

IdMember == << "i", "d" >>

NameMember == << "n", "a", "m", "e" >>

UserEmailMember == << "u", "s", "e", "r", "E", "m", "a", "i", "l" >>

UpdatedAtMember == << "u", "p", "d", "a", "t", "e", "d", "A", "t" >>

DigitChar(d) ==
  CASE d = 0 -> "0" [] d = 1 -> "1" [] d = 2 -> "2" [] d = 3 -> "3"
    [] d = 4 -> "4" [] d = 5 -> "5" [] d = 6 -> "6" [] d = 7 -> "7"
    [] d = 8 -> "8" [] d = 9 -> "9"

\* The text of a number: its decimal digits.
RECURSIVE NumberText(_)
NumberText(n) ==
  IF n < 10 THEN << DigitChar(n) >>
  ELSE Append(NumberText(n \div 10), DigitChar(n % 10))

\* Variant of Escaped: the characters as they are.
Escaped_AsIs(str) == str

\* The characters of a string inside its quotes: '"' and '\' get a '\'.
RECURSIVE Escaped(_)
Escaped(str) ==
  IF str = << >> THEN << >>
  ELSE (IF Head(str) \in { Quote, Backslash } THEN << Backslash, Head(str) >>
        ELSE << Head(str) >>) \o Escaped(Tail(str))

StringText(str) == << Quote >> \o Escaped(str) \o << Quote >>

MemberText(name, valueText) == StringText(name) \o << ":" >> \o valueText

PasswordText(password) ==
  << "{" >> \o MemberText(IdMember, StringText(password.id))
  \o << "," >> \o MemberText(NameMember, StringText(password.name))
  \o << "," >> \o MemberText(UpdatedAtMember, NumberText(password.updatedAt))
  \o << "}" >>

RECURSIVE PasswordsText(_)
PasswordsText(passwords) ==
  IF passwords = << >> THEN << >>
  ELSE PasswordText(Head(passwords))
       \o (IF Len(passwords) > 1 THEN << "," >> ELSE << >>)
       \o PasswordsText(Tail(passwords))

\* JSON.stringify(vault): a member that is undefined is left out.
stringifyVault(vault) ==
  << "{" >>
  \o MemberText(PasswordsMember,
                << "[" >> \o PasswordsText(vault.passwords) \o << "]" >>)
  \o << "," >> \o MemberText(LastSyncMember, NumberText(vault.lastSync))
  \o (IF "userEmail" \in DOMAIN vault
      THEN << "," >> \o MemberText(UserEmailMember, StringText(vault.userEmail))
      ELSE << >>)
  \o << "}" >>

\* The reader of a text: whether it still follows the grammar, the place of
\* the next character, the strings and numbers read for the object at hand,
\* and the elements of passwords read so far.
ReadStart == [ok |-> TRUE, next |-> 1, values |-> << >>, passwords |-> << >>]

ReadFailed == [ok |-> FALSE, next |-> 0, values |-> << >>, passwords |-> << >>]

\* The text goes on with these characters.
ReadLiteral(text, r, lit) ==
  IF /\ r.ok
     /\ r.next + Len(lit) - 1 <= Len(text)
     /\ SubSeq(text, r.next, r.next + Len(lit) - 1) = lit
  THEN [r EXCEPT !.next = @ + Len(lit)]
  ELSE ReadFailed

\* The place of the quote that closes a string, 0 when there is none.
RECURSIVE StringEnd(_, _)
StringEnd(text, j) ==
  IF j > Len(text) THEN 0
  ELSE IF text[j] = Backslash THEN StringEnd(text, j + 2)
  ELSE IF text[j] = Quote THEN j
  ELSE StringEnd(text, j + 1)

RECURSIVE Unescaped(_)
Unescaped(str) ==
  IF str = << >> THEN << >>
  ELSE IF Head(str) = Backslash /\ Len(str) >= 2
  THEN << str[2] >> \o Unescaped(Tail(Tail(str)))
  ELSE << Head(str) >> \o Unescaped(Tail(str))

\* The text goes on with a string.
ReadString(text, r) ==
  IF ~r.ok \/ r.next > Len(text) \/ text[r.next] # Quote THEN ReadFailed
  ELSE LET e == StringEnd(text, r.next + 1)
       IN IF e = 0 THEN ReadFailed
          ELSE [r EXCEPT
                  !.next = e + 1,
                  !.values = Append(@, Unescaped(SubSeq(text, r.next + 1, e - 1)))]

\* The place after the digits that start at j.
RECURSIVE NumberEnd(_, _)
NumberEnd(text, j) ==
  IF j <= Len(text) /\ text[j] \in Digits THEN NumberEnd(text, j + 1) ELSE j

RECURSIVE NumberValue(_)
NumberValue(digits) ==
  IF digits = << >> THEN 0
  ELSE 10 * NumberValue(SubSeq(digits, 1, Len(digits) - 1))
       + (CHOOSE d \in 0..9 : DigitChar(d) = digits[Len(digits)])

\* The text goes on with a number.
ReadNumber(text, r) ==
  IF ~r.ok THEN ReadFailed
  ELSE LET e == NumberEnd(text, r.next)
       IN IF e = r.next THEN ReadFailed
          ELSE [r EXCEPT
                  !.next = e,
                  !.values = Append(@, NumberValue(SubSeq(text, r.next, e - 1)))]

\* The object read becomes an element of passwords.
PasswordRead(r) ==
  IF ~r.ok THEN ReadFailed
  ELSE [r EXCEPT
          !.values = << >>,
          !.passwords = Append(@, [id |-> r.values[1], name |-> r.values[2],
                                   updatedAt |-> r.values[3]])]

\* An object with the members of a Password, in the order stringify writes.
ReadPassword(text, r) ==
  PasswordRead(
    ReadLiteral(text,
      ReadNumber(text,
        ReadLiteral(text,
          ReadString(text,
            ReadLiteral(text,
              ReadString(text,
                ReadLiteral(text, r, << "{" >> \o MemberText(IdMember, << >>))),
              << "," >> \o MemberText(NameMember, << >>))),
          << "," >> \o MemberText(UpdatedAtMember, << >>))),
      << "}" >>))

\* The elements of an array that is not empty, up to its closing bracket.
RECURSIVE ReadPasswords(_, _)
RECURSIVE ReadMorePasswords(_, _)
ReadPasswords(text, r) == ReadMorePasswords(text, ReadPassword(text, r))

ReadMorePasswords(text, r) ==
  IF ~r.ok \/ r.next > Len(text) THEN ReadFailed
  ELSE IF text[r.next] = "]" THEN [r EXCEPT !.next = @ + 1]
  ELSE IF text[r.next] = "," THEN ReadPasswords(text, [r EXCEPT !.next = @ + 1])
  ELSE ReadFailed

ReadArray(text, r) ==
  IF ~r.ok \/ r.next + 1 > Len(text) \/ text[r.next] # "[" THEN ReadFailed
  ELSE IF text[r.next + 1] = "]" THEN [r EXCEPT !.next = @ + 2]
  ELSE ReadPasswords(text, [r EXCEPT !.next = @ + 1])

\* The member userEmail, when the text goes on with one.
ReadUserEmail(text, r) ==
  IF ReadLiteral(text, r, << "," >> \o MemberText(UserEmailMember, << >>)).ok
  THEN ReadString(text,
         ReadLiteral(text, r, << "," >> \o MemberText(UserEmailMember, << >>)))
  ELSE r

\* The vault read, when the text ends where the object does.
VaultRead(text, r) ==
  IF r.ok /\ r.next = Len(text) + 1
  THEN Return(IF Len(r.values) = 2
              THEN [passwords |-> r.passwords, lastSync |-> r.values[1],
                    userEmail |-> r.values[2]]
              ELSE [passwords |-> r.passwords, lastSync |-> r.values[1]])
  ELSE Throw("Unexpected token in JSON")

\* JSON.parse(decryptedData): the vault, or the SyntaxError thrown.
JSONparse(text) ==
  VaultRead(text,
    ReadLiteral(text,
      ReadUserEmail(text,
        ReadNumber(text,
          ReadLiteral(text,
            ReadArray(text,
              ReadLiteral(text, ReadStart,
                          << "{" >> \o MemberText(PasswordsMember, << >>))),
            << "," >> \o MemberText(LastSyncMember, << >>)))),
      << "}" >>))

(***************************************************************************)
(* PasswordStorageService (src/lib/passwordStorage.ts).  The item of       *)
(* localStorage under vault_<userId> is << >> when there is none and       *)
(* << the string >> otherwise.                                             *)
(***************************************************************************)
\* { passwords: [], lastSync: Date.now() }
EmptyVault(now) == [passwords |-> << >>, lastSync |-> now]

\* getVault from the outcome of decrypt on: parse, or the catch branch.
VaultOfDecrypted(decryptedData, now) ==
  IF ~decryptedData.ok THEN EmptyVault(now)
  ELSE LET vault == JSONparse(decryptedData.value)
       IN IF ~vault.ok THEN EmptyVault(now)
          ELSE [vault.value EXCEPT
                  !.lastSync = IF vault.value.lastSync = 0 THEN now
                               ELSE vault.value.lastSync]

\* Variant of getVault: without the catch, an error of decrypt or JSON.parse
\* leaves the call.
getVault_Uncaught(item, encryptionKey, now) ==
  IF item = << >> \/ Falsy(item[1]) THEN { EmptyVault(now) }
  ELSE IF Falsy(encryptionKey.key) \/ Falsy(encryptionKey.salt)
  THEN { EmptyVault(now) }
  ELSE { VaultOfDecrypted(d, now) :
           d \in { x \in decrypt(item[1], encryptionKey) :
                     x.ok /\ JSONparse(x.value).ok } }

\* PasswordStorageService.getVault: the vaults the call can return.
getVault(item, encryptionKey, now) ==
  IF item = << >> \/ Falsy(item[1]) THEN { EmptyVault(now) }
  ELSE IF Falsy(encryptionKey.key) \/ Falsy(encryptionKey.salt)
  THEN { EmptyVault(now) }
  ELSE { VaultOfDecrypted(d, now) : d \in decrypt(item[1], encryptionKey) }

\* PasswordStorageService.saveVault: the item afterwards; an error of encrypt
\* is caught and the item stays.
saveVault(item, vault, encryptionKey, iv) ==
  LET encryptedData == encrypt(stringifyVault(vault), encryptionKey, iv)
  IN IF encryptedData.ok THEN << encryptedData.value >> ELSE item

\* Variant of findIndex: no element found.
findIndex_None(passwords, id) == 0

\* vault.passwords.findIndex(p => p.id === password.id), counted from 1;
\* 0 is the -1 of the code.
findIndex(passwords, id) ==
  LET found == { i \in 1..Len(passwords) : passwords[i].id = id }
  IN IF found = { } THEN 0
     ELSE CHOOSE i \in found : \A j \in found : i <= j

\* Variant of Stamped: updatedAt set to 0.
Stamped_Zero(password, now) == [password EXCEPT !.updatedAt = 0]

\* { ...password, updatedAt: Date.now() }
Stamped(password, now) == [password EXCEPT !.updatedAt = now]

\* The vault that savePassword hands to saveVault.
SavedVault(vault, password, now) ==
  LET existingIndex == findIndex(vault.passwords, password.id)
  IN [vault EXCEPT
        !.passwords = IF existingIndex > 0
                      THEN [vault.passwords EXCEPT
                              ![existingIndex] = Stamped(password, now)]
                      ELSE Append(vault.passwords, password),
        !.lastSync = now]

\* Variant of WithoutId: every element kept.
WithoutId_KeepAll(passwords, passwordId) == passwords

\* vault.passwords.filter(p => p.id !== passwordId)
WithoutId(passwords, passwordId) ==
  SelectSeq(passwords, LAMBDA p : p.id # passwordId)

(***************************************************************************)
(* The inputs of the vault                                                 *)
(***************************************************************************)
\* Date.now() stays at or below MaxNow.
MaxNow == 3

PasswordIds == { << "1" >>, << "2" >> }

PasswordNames == { << "a" >>, << "b", Quote >> }

\* The outcomes of WordArray.random that the calls of the vault draw from.
VaultIvs == { 1 }

\* The record of the last call of the service.
NoVaultCall ==
  [op |-> "none", password |-> [id |-> << >>, name |-> << >>, updatedAt |-> 0],
   passwordId |-> << >>, now |-> 0, loadedLength |-> 0, existing |-> << >>,
   again |-> FALSE]

(***************************************************************************)
(* State                                                                   *)
(***************************************************************************)
VARIABLES
  aadhaar_recovery,  \* the table: user_email -> <<>> (no row) or <<row>>
  clock,             \* the server's time in milliseconds
  call,              \* per handler instance: its request, locals and response
  windowCount,       \* history: comparisons per subject since the last reset
  failStreak,        \* history: failed verifications per subject since then
  lastCounted,       \* history: time of the subject's last comparison
  registeredKey,     \* history: key of the subject's last accepted store
  crypto,            \* one run of the codec: inputs, envelope, outcome
  localStorage,      \* the item vault_<userId>: <<>> or <<the string>>
  dateNow,           \* Date.now() of the browser
  userKey,           \* the EncryptionKey of the session
  vaultCall,         \* history: the last call of PasswordStorageService
  upserted,          \* history: id -> <<>> or <<the Password last given>>
  session,           \* the browser session: the stored key, the last call
  tabs,              \* two callers of the vault service, between load and save
  setup,             \* the recovery setup and the payloads sent to servers
  extraction         \* one run of the PDF extraction: input and outcome

recoveryVars ==
  << aadhaar_recovery, clock, call, windowCount, failStreak, lastCounted,
     registeredKey >>

vaultVars == << localStorage, dateNow, userKey, vaultCall, upserted >>

clientVars == << session, tabs, setup, extraction >>

vars == << recoveryVars, crypto, vaultVars, clientVars >>

IdleCall ==
  [op |-> "none", pc |-> "idle", req |-> NoRequest, recoveryData |-> <<>>,
   now |-> 0, currentAttempts |-> 0, newAttempts |-> 0,
   nameMatch |-> FALSE, aadhaarMatch |-> FALSE, dobMatch |-> FALSE,
   resp |-> NoResponse, sent |-> <<>>,
   afterStore |-> FALSE, afterStoreOk |-> FALSE]

RecoveryInit ==
  /\ aadhaar_recovery = [e \in Emails |-> <<>>]
  /\ clock = 0
  /\ call = [p \in Procs |-> IdleCall]
  /\ windowCount = [e \in Emails |-> 0]
  /\ failStreak = [e \in Emails |-> 0]
  /\ lastCounted = [e \in Emails |-> <<>>]
  /\ registeredKey = [e \in Emails |-> <<>>]

VaultIdle ==
  /\ localStorage = << >>
  /\ dateNow = 1
  /\ userKey = BaseKey
  /\ vaultCall = NoVaultCall
  /\ upserted = [id \in PasswordIds |-> << >>]

\* The session before any call: no encryption_key_<userId> item, no export.
SessionIdle ==
  [op |-> "none", key |-> BaseKey, before |-> << >>, returned |-> << >>,
   raised |-> FALSE, artifact |-> << >>, keyItem |-> << >>,
   vaultLoaded |-> FALSE, calls |-> 0]

\* The callers of the vault service that share the item: two tabs of the
\* browser on the same origin.
Tabs == { "t1", "t2" }

\* A caller that has not called: no operation, nothing loaded.
IdleTab ==
  [pc |-> "idle", op |-> "none", password |-> NoVaultCall.password,
   passwordId |-> << >>, now |-> 0, vault |-> EmptyVault(0), savesBefore |-> 0]

\* The callers, the order in which they saved, and the vault that the item
\* held before any of them called.
TabsIdle ==
  [of |-> [t \in Tabs |-> IdleTab], saved |-> << >>, initial |-> EmptyVault(0)]

\* What fetch gave: rejected is a network error, ok is response.ok and
\* success is the member of the JSON of the response.
NoServerResponse == [rejected |-> FALSE, ok |-> FALSE, success |-> FALSE]

\* The setup of the recovery before any step: nothing in flight, nothing
\* sent, no key of a completed setup.
SetupIdle ==
  [pc |-> "idle", op |-> "none", newKey |-> BaseKey, userEmail |-> << >>,
   before |-> << >>, raised |-> FALSE, response |-> NoServerResponse,
   sent |-> << >>, completed |-> { }, steps |-> 0]

\* The extraction before any call.
ExtractionIdle ==
  [op |-> "none", file |-> << >>, text |-> [ok |-> FALSE, value |-> << >>, error |-> ""],
   details |-> [ok |-> FALSE, value |-> << >>, error |-> ""]]

ClientIdle ==
  /\ session = SessionIdle
  /\ tabs = TabsIdle
  /\ setup = SetupIdle
  /\ extraction = ExtractionIdle

Init == RecoveryInit /\ crypto = CryptoIdle /\ VaultIdle /\ ClientIdle

(***************************************************************************)
(* The decisions of the verify handler                                     *)
(***************************************************************************)
\* daysSinceLastAttempt >= 1, where daysSinceLastAttempt is
\* (now - lastAttempt) / (1000 * 60 * 60 * 24), and 1 without a last attempt.
DaysSinceAtLeastOne(now, last) ==
  IF last = <<>> THEN TRUE ELSE now - last[1] >= MsPerDay

\* Variant of IsRateLimited: the quota compared with > instead of >=.
IsRateLimited_OffByOne(row, now) ==
  /\ row.recovery_attempts > MaxAttempts
  /\ ~DaysSinceAtLeastOne(now, row.last_recovery_attempt)

\* recoveryData.recovery_attempts >= 5 && daysSinceLastAttempt < 1
IsRateLimited(row, now) ==
  /\ row.recovery_attempts >= MaxAttempts
  /\ ~DaysSinceAtLeastOne(now, row.last_recovery_attempt)

\* Variant of CurrentAttempts: the stored count kept after a day has passed.
CurrentAttempts_NoReset(row, now) == row.recovery_attempts

\* let currentAttempts = ...; if (daysSinceLastAttempt >= 1) currentAttempts = 0
CurrentAttempts(row, now) ==
  IF DaysSinceAtLeastOne(now, row.last_recovery_attempt)
  THEN 0
  ELSE row.recovery_attempts

\* Variant of NameMatch: the name compared as typed.
NameMatch_AsTyped(req, row) == bcryptCompare(req.name, row.encrypted_name)

NameMatch(req, row) == bcryptCompare(NormalizeName(req.name), row.encrypted_name)

AadhaarMatch(req, row) ==
  bcryptCompare(StripWhitespace(req.aadhaarNumber), row.encrypted_aadhaar_number)

\* let dobMatch = true; if (recoveryData.encrypted_dob && dob) dobMatch = compare
DobMatch(req, row) ==
  IF row.encrypted_dob # <<>> /\ ~NoDob(req.dob)
  THEN bcryptCompare(req.dob, row.encrypted_dob[1])
  ELSE TRUE

\* Variant of VerificationPassed: the number's comparison left out.
VerificationPassed_NoNumber(c) == c.nameMatch /\ c.dobMatch

\* if (nameMatch && aadhaarMatch && dobMatch)
VerificationPassed(c) == c.nameMatch /\ c.aadhaarMatch /\ c.dobMatch

\* Variant of AttemptUpdate: the counter written, the time stamp left as it was.
AttemptUpdate_NoStamp(row, c) ==
  [row EXCEPT !.recovery_attempts = c.newAttempts]

\* .update({recovery_attempts: newAttempts, last_recovery_attempt: now})
AttemptUpdate(row, c) ==
  [row EXCEPT !.recovery_attempts = c.newAttempts,
              !.last_recovery_attempt = << c.now >>]

\* .update({recovery_attempts: 0, last_recovery_attempt: null})
ResetUpdate(row) ==
  [row EXCEPT !.recovery_attempts = 0, !.last_recovery_attempt = <<>>]

\* The table after UPDATE ... SET recovery_attempts, last_recovery_attempt
\* WHERE user_email = email, the two columns taken from values: no row, no
\* change; a count the CHECK constraint rejects, no change (the handlers ignore
\* the error).
DbUpdate(table, email, values) ==
  IF table[email] = <<>>
  THEN table
  ELSE IF values.recovery_attempts <= MaxRecoveryAttemptsCheck
       THEN [table EXCEPT ![email] =
               << [@[1] EXCEPT
                     !.recovery_attempts = values.recovery_attempts,
                     !.last_recovery_attempt = values.last_recovery_attempt] >>]
       ELSE table

\* The handler's local variables once the row is fetched and compared.
VerifyLocals(req, row, now) ==
  [now |-> now,
   currentAttempts |-> CurrentAttempts(row, now),
   newAttempts |-> CurrentAttempts(row, now) + 1,
   nameMatch |-> NameMatch(req, row),
   aadhaarMatch |-> AadhaarMatch(req, row),
   dobMatch |-> DobMatch(req, row)]

\* sendRecoveryEmail(userEmail, recoveryData.encrypted_decryption_key, recoveryData.salt)
sendRecoveryEmail(email, encryptedKey, salt) ==
  [to |-> email, key |-> encryptedKey, salt |-> salt]

(***************************************************************************)
(* The decisions of the store handler                                      *)
(***************************************************************************)
\* The first validation the request fails, as its response; Stored if none.
StoreValidate(req) ==
  IF Falsy(req.userEmail) \/ Falsy(req.name) \/ Falsy(req.aadhaarNumber)
     \/ Falsy(req.decryptionKey)
  THEN MissingFields
  ELSE IF ~emailRegexTest(req.userEmail)
  THEN InvalidEmail
  ELSE IF ~aadhaarRegexTest(StripWhitespace(req.aadhaarNumber))
  THEN InvalidAadhaar
  ELSE Stored

\* The row the upsert writes.
StoreRow(req, salt) ==
  [encrypted_name |-> bcryptHash(NormalizeName(req.name), salt),
   encrypted_aadhaar_number |-> bcryptHash(StripWhitespace(req.aadhaarNumber), salt),
   encrypted_dob |-> IF NoDob(req.dob) THEN <<>> ELSE << bcryptHash(req.dob, salt) >>,
   encrypted_decryption_key |-> bcryptHash(JSONstringify(req.decryptionKey), salt),
   salt |-> salt,
   recovery_attempts |-> 0,
   last_recovery_attempt |-> <<>>]

(***************************************************************************)
(* History bookkeeping (not program state)                                 *)
(***************************************************************************)
\* A day or more has passed since the subject's last comparison, or none was made.
HistoryGap(e) ==
  lastCounted[e] = <<>> \/ clock - lastCounted[e][1] >= MsPerDay

\* Counts above the quota are all recorded as "more than the quota".
Saturate(n) == IF n > MaxAttempts THEN MaxAttempts + 1 ELSE n

\* The call in p's slot is a store of exactly this subject and these attributes.
IsStoreOf(c, req) ==
  /\ c.op = "store"
  /\ c.req.userEmail = req.userEmail
  /\ c.req.name = req.name
  /\ c.req.aadhaarNumber = req.aadhaarNumber
  /\ c.req.dob = req.dob

Idle(p) == call[p].pc \in {"idle", "done"}

(***************************************************************************)
(* store-aadhaar-recovery: validation, hashing and the one upsert          *)
(***************************************************************************)
StoreAadhaarRecovery(p, requests) ==
  /\ Idle(p)
  /\ \E req \in requests, salt \in Salts :
       LET resp == StoreValidate(req)
           e == req.userEmail
       IN /\ call' = [call EXCEPT ![p] =
                        [IdleCall EXCEPT !.op = "store", !.pc = "done",
                                         !.req = req, !.resp = resp]]
          /\ IF resp.success
             THEN /\ aadhaar_recovery' =
                       [aadhaar_recovery EXCEPT ![e] = << StoreRow(req, salt) >>]
                  /\ windowCount' = [windowCount EXCEPT ![e] = 0]
                  /\ failStreak' = [failStreak EXCEPT ![e] = 0]
                  /\ lastCounted' = [lastCounted EXCEPT ![e] = <<>>]
                  /\ registeredKey' = [registeredKey EXCEPT ![e] = << req.decryptionKey >>]
             ELSE UNCHANGED << aadhaar_recovery, windowCount, failStreak,
                               lastCounted, registeredKey >>
  /\ UNCHANGED clock

(***************************************************************************)
(* verify-aadhaar-recovery, one action per database statement.             *)
(* VerifyFetch: validation, the select, the rate-limit check and the       *)
(* comparisons (lines 35-78).                                              *)
(***************************************************************************)
VerifyFetch(p, requests) ==
  /\ Idle(p)
  /\ \E req \in requests :
       LET e == req.userEmail
           after == IsStoreOf(call[p], req)
           start == [IdleCall EXCEPT !.op = "verify", !.req = req, !.now = clock,
                                     !.afterStore = after,
                                     !.afterStoreOk = after /\ call[p].resp.success]
           Finish(resp, fetched) ==
             /\ call' = [call EXCEPT ![p] =
                           [start EXCEPT !.pc = "done", !.resp = resp,
                                         !.recoveryData = fetched]]
             /\ UNCHANGED << windowCount, failStreak, lastCounted >>
       IN IF Falsy(req.userEmail) \/ Falsy(req.name) \/ Falsy(req.aadhaarNumber)
          THEN Finish(MissingFields, <<>>)
          ELSE IF aadhaar_recovery[e] = <<>>
          THEN Finish(NotFound, <<>>)
          ELSE LET row == aadhaar_recovery[e][1]
                   l == VerifyLocals(req, row, clock)
               IN IF IsRateLimited(row, clock)
                  THEN Finish(RateLimited, << row >>)
                  ELSE /\ call' = [call EXCEPT ![p] =
                                     [start EXCEPT !.pc = "fetched",
                                        !.recoveryData = << row >>,
                                        !.currentAttempts = l.currentAttempts,
                                        !.newAttempts = l.newAttempts,
                                        !.nameMatch = l.nameMatch,
                                        !.aadhaarMatch = l.aadhaarMatch,
                                        !.dobMatch = l.dobMatch]]
                       /\ windowCount' = [windowCount EXCEPT ![e] =
                             IF HistoryGap(e) THEN 1 ELSE Saturate(@ + 1)]
                       /\ failStreak' = [failStreak EXCEPT ![e] =
                             IF HistoryGap(e) THEN 0 ELSE @]
                       /\ lastCounted' = [lastCounted EXCEPT ![e] = << clock >>]
  /\ UNCHANGED << aadhaar_recovery, clock, registeredKey >>

\* VerifyUpdate: the attempt update, then the e-mail or the failure (lines 77-113).
VerifyUpdate(p) ==
  /\ call[p].pc = "fetched"
  /\ LET c == call[p]
         e == c.req.userEmail
     IN /\ aadhaar_recovery' =
           DbUpdate(aadhaar_recovery, e, AttemptUpdate(c.recoveryData[1], c))
        /\ IF VerificationPassed(c)
           THEN /\ call' = [call EXCEPT ![p] =
                       [c EXCEPT !.pc = "updated",
                                 !.sent = << sendRecoveryEmail(e,
                                     c.recoveryData[1].encrypted_decryption_key,
                                     c.recoveryData[1].salt) >>]]
                /\ UNCHANGED failStreak
           ELSE /\ call' = [call EXCEPT ![p] =
                       [c EXCEPT !.pc = "done", !.resp = VerificationFailed(c)]]
                /\ failStreak' = [failStreak EXCEPT ![e] = Saturate(@ + 1)]
  /\ UNCHANGED << clock, windowCount, lastCounted, registeredKey >>

\* VerifyReset: the reset update and the success response (lines 92-110).
VerifyReset(p) ==
  /\ call[p].pc = "updated"
  /\ LET e == call[p].req.userEmail
     IN /\ aadhaar_recovery' =
           DbUpdate(aadhaar_recovery, e, ResetUpdate(call[p].recoveryData[1]))
        /\ call' = [call EXCEPT ![p].pc = "done", ![p].resp = Verified]
        /\ windowCount' = [windowCount EXCEPT ![e] = 0]
        /\ failStreak' = [failStreak EXCEPT ![e] = 0]
        /\ lastCounted' = [lastCounted EXCEPT ![e] = <<>>]
  /\ UNCHANGED << clock, registeredKey >>

\* Time passes: the clock advances by step, up to limit.
Tick(step, limit) ==
  /\ clock + step <= limit
  /\ clock' = clock + step
  /\ UNCHANGED << aadhaar_recovery, call, windowCount, failStreak, lastCounted,
                  registeredKey >>

(***************************************************************************)
(* Specifications: requests handled one after the other, and requests      *)
(* handled by concurrent instances.                                        *)
(***************************************************************************)
Next ==
  /\ \/ \E p \in SerialProcs : StoreAadhaarRecovery(p, AadhaarRecoveryDatas)
     \/ \E p \in SerialProcs : VerifyFetch(p, VerificationRequests)
     \/ \E p \in SerialProcs : VerifyUpdate(p)
     \/ \E p \in SerialProcs : VerifyReset(p)
     \/ Tick(TickMs, MaxTicks * TickMs)
  /\ UNCHANGED << crypto, vaultVars, clientVars >>

Spec == Init /\ [][Next]_vars

NextConcurrent ==
  /\ \/ \E p \in Procs : StoreAadhaarRecovery(p, ConcurrentRecoveryDatas)
     \/ \E p \in Procs : VerifyFetch(p, ConcurrentVerificationRequests)
     \/ \E p \in Procs : VerifyUpdate(p)
     \/ \E p \in Procs : VerifyReset(p)
     \/ Tick(MsPerDay, MaxDays * MsPerDay)
  /\ UNCHANGED << crypto, vaultVars, clientVars >>

SpecConcurrent == Init /\ [][NextConcurrent]_vars

\* No other instance is in the middle of a request.
OthersIdle(p) == \A q \in Procs \ {p} : Idle(q)

\* Two instances that take the requests one after the other: the record of an
\* instance's last call stays while the other instance handles the next ones.
NextReRegister ==
  /\ \/ \E p \in Procs :
           OthersIdle(p) /\ StoreAadhaarRecovery(p, ReRegisterRecoveryDatas)
     \/ \E p \in Procs :
           OthersIdle(p) /\ VerifyFetch(p, ReRegisterVerificationRequests)
     \/ \E p \in Procs : VerifyUpdate(p)
     \/ \E p \in Procs : VerifyReset(p)
  /\ UNCHANGED << crypto, vaultVars, clientVars >>

SpecReRegister == Init /\ [][NextReRegister]_vars

(***************************************************************************)
(* The codec: a plaintext is encrypted under a key, the envelope is stored *)
(* (and may come back cut short), and is decrypted under some key.         *)
(***************************************************************************)
\* EncryptionService.encrypt(data, encryptionKey)
Encrypt ==
  /\ crypto.pc = "input"
  /\ \E iv \in Ivs :
       crypto' = [crypto EXCEPT
                    !.pc = "encrypted", !.encoder = "current",
                    !.encrypted = encrypt(crypto.data, crypto.encryptionKey, iv)]

\* encrypt(data, encryptionKey) of the prior version: an envelope written
\* before the upgrade.
EncryptPrior ==
  /\ crypto.pc = "input"
  /\ crypto' = [crypto EXCEPT
                  !.pc = "encrypted", !.encoder = "prior",
                  !.encrypted = encryptPrior(crypto.data, crypto.encryptionKey, 1)]

\* An envelope in the layout of decrypt's legacy branch.
StoreLegacyEnvelope ==
  /\ crypto.pc = "input"
  /\ ~Falsy(crypto.encryptionKey.key)
  /\ \E iv \in Ivs :
       crypto' = [crypto EXCEPT
                    !.pc = "encrypted", !.encoder = "legacy",
                    !.encrypted = legacyEnvelope(crypto.data, crypto.encryptionKey, iv)]

\* The stored envelope loses its end.
Truncate ==
  /\ crypto.pc = "encrypted"
  /\ crypto.encrypted.ok
  /\ ~crypto.truncated
  /\ \E n \in TruncatedLengths(Len(crypto.encrypted.value)) :
       crypto' = [crypto EXCEPT
                    !.truncated = TRUE,
                    !.encrypted = Return(SubSeq(crypto.encrypted.value, 1, n))]

\* EncryptionService.decrypt(encryptedData, encryptionKey)
Decrypt ==
  /\ crypto.pc = "encrypted"
  /\ crypto.encrypted.ok
  /\ \E k \in EncryptionKeys :
       \E outcome \in decrypt(crypto.encrypted.value, k) :
          crypto' = [crypto EXCEPT
                       !.pc = "decrypted", !.decryptionKey = k,
                       !.decrypted = outcome]

InitCodec ==
  /\ RecoveryInit
  /\ VaultIdle
  /\ ClientIdle
  /\ crypto \in { [CryptoIdle EXCEPT !.pc = "input", !.data = d,
                                     !.encryptionKey = k] :
                  d \in Plaintexts, k \in EncryptionKeys }

NextCodec ==
  /\ \/ Encrypt
     \/ EncryptPrior
     \/ StoreLegacyEnvelope
     \/ Truncate
     \/ Decrypt
  /\ UNCHANGED << recoveryVars, vaultVars, clientVars >>

SpecCodec == InitCodec /\ [][NextCodec]_vars

(***************************************************************************)
(* The vault: one user's item of localStorage, written and read by the     *)
(* calls of PasswordStorageService under the key of the session.  The      *)
(* calls are synchronous, so each is one step.                             *)
(***************************************************************************)
\* What getVault returns in this state: the lists of passwords it can give.
StoredPasswords ==
  { vault.passwords : vault \in getVault(localStorage, userKey, dateNow) }

\* The entry of the list with this id: << >> or << the entry >>.
EntryOf(passwords, id) ==
  LET i == findIndex(passwords, id)
  IN IF i = 0 THEN << >> ELSE << passwords[i] >>

\* The record of a call: the operation, its argument, the Date.now() it read,
\* the length of the list its getVault returned and the entry of that list
\* with the id of the call, and whether the call before it was a savePassword
\* with the same id.
VaultCall(op, password, passwordId, now, loaded) ==
  [op |-> op, password |-> password, passwordId |-> passwordId, now |-> now,
   loadedLength |-> Len(loaded), existing |-> EntryOf(loaded, passwordId),
   again |-> vaultCall.op = "savePassword" /\ vaultCall.passwordId = passwordId]

\* saveVault(userId, { passwords: [], lastSync: Date.now() }, encryptionKey)
\* for a user who has no item yet.
SaveEmptyVault ==
  /\ localStorage = << >>
  /\ \E iv \in VaultIvs :
       localStorage' = saveVault(localStorage, EmptyVault(dateNow), userKey, iv)
  /\ vaultCall' = VaultCall("saveVault", NoVaultCall.password, << >>, dateNow,
                            << >>)
  /\ UNCHANGED << dateNow, userKey, upserted >>

\* PasswordForm.handleSubmit builds the Password with updatedAt: Date.now()
\* and hands it to savePassword, whose own Date.now() is read after getVault
\* has derived the key and decrypted: at the same time or later.
SavePassword ==
  \E id \in PasswordIds, name \in PasswordNames, later \in 0..1, iv \in VaultIvs :
    LET passwordData == [id |-> id, name |-> name, updatedAt |-> dateNow]
        now == dateNow + later
    IN /\ now <= MaxNow
       /\ \E vault \in getVault(localStorage, userKey, now) :
            /\ localStorage' =
                 saveVault(localStorage, SavedVault(vault, passwordData, now),
                           userKey, iv)
            /\ vaultCall' = VaultCall("savePassword", passwordData, id, now,
                                      vault.passwords)
       /\ dateNow' = now
       /\ upserted' = [upserted EXCEPT ![id] = << passwordData >>]
       /\ UNCHANGED userKey

\* PasswordStorageService.deletePassword(userId, passwordId, encryptionKey)
DeletePassword ==
  \E passwordId \in PasswordIds, iv \in VaultIvs :
    /\ \E vault \in getVault(localStorage, userKey, dateNow) :
         /\ localStorage' =
              saveVault(localStorage,
                        [vault EXCEPT
                           !.passwords = WithoutId(vault.passwords, passwordId),
                           !.lastSync = dateNow],
                        userKey, iv)
         /\ vaultCall' = VaultCall("deletePassword", NoVaultCall.password,
                                   passwordId, dateNow, vault.passwords)
    /\ upserted' = [upserted EXCEPT ![passwordId] = << >>]
    /\ UNCHANGED << dateNow, userKey >>

\* Time passes between two calls.
TickNow ==
  /\ dateNow < MaxNow
  /\ dateNow' = dateNow + 1
  /\ UNCHANGED << localStorage, userKey, vaultCall, upserted >>

InitVault == RecoveryInit /\ crypto = CryptoIdle /\ VaultIdle /\ ClientIdle

NextVault ==
  /\ \/ SaveEmptyVault
     \/ SavePassword
     \/ DeletePassword
     \/ TickNow
  /\ UNCHANGED << recoveryVars, crypto, clientVars >>

SpecVault == InitVault /\ [][NextVault]_vars

(***************************************************************************)
(* Vocabulary of the properties                                            *)
(***************************************************************************)
\* A verify request that carries a subject, a name and a number.
WellFormed(req) ==
  ~Falsy(req.userEmail) /\ ~Falsy(req.name) /\ ~Falsy(req.aadhaarNumber)

\* In this step instance p receives a verify request and handles it up to its
\* first database statement.
StartsVerify(p) ==
  /\ Idle(p)
  /\ call'[p] # call[p]
  /\ call'[p].op = "verify"

\* The request's attributes are the ones the row was registered with.
AttributesOf(req, row) ==
  /\ row.encrypted_name = bcryptHash(NormalizeName(req.name), row.salt)
  /\ row.encrypted_aadhaar_number =
       bcryptHash(StripWhitespace(req.aadhaarNumber), row.salt)
  /\ row.encrypted_dob =
       IF req.dob = "" THEN <<>> ELSE << bcryptHash(req.dob, row.salt) >>

\* The attempts already counted in the window a call at time now falls in.
CountedInWindow(row, now) ==
  IF row.last_recovery_attempt = <<>>
     \/ now - row.last_recovery_attempt[1] >= MsPerDay
  THEN 0
  ELSE row.recovery_attempts

(***************************************************************************)
(* C1: quota enforcement.  With calls handled one after the other, after 5 *)
(* verify() calls for a subject that each ended in VerificationFailed,     *)
(* with no gap of 24h or more since the last counted attempt (and no       *)
(* registration or successful verification in between), the next verify()  *)
(* for that subject returns RateLimited and sends nothing, whatever        *)
(* attributes it supplies.                                                 *)
(***************************************************************************)
C1_QuotaEnforced ==
  [][\A p \in SerialProcs :
       (/\ StartsVerify(p)
        /\ WellFormed(call'[p].req)
        /\ failStreak[call'[p].req.userEmail] = MaxAttempts
        /\ ~HistoryGap(call'[p].req.userEmail))
       => (/\ call'[p].pc = "done"
           /\ call'[p].resp = RateLimited
           /\ call'[p].sent = <<>>
           /\ aadhaar_recovery' = aadhaar_recovery)]_vars

\* A sixth call with exactly the registered attributes was answered RateLimited.
C1_Witness ==
  \E p \in SerialProcs :
     /\ call[p].op = "verify" /\ call[p].pc = "done"
     /\ call[p].resp = RateLimited
     /\ failStreak[call[p].req.userEmail] = MaxAttempts
     /\ AttributesOf(call[p].req, call[p].recoveryData[1])

(***************************************************************************)
(* C2: under any interleaving of concurrent verify() calls for one subject *)
(* at most 5 calls reach the attribute comparison between two resets of    *)
(* the counter (a gap of 24h or more, a successful verify, a re-register). *)
(***************************************************************************)
C2_QuotaNotExceeded ==
  \A e \in Emails : windowCount[e] <= MaxAttempts

(***************************************************************************)
(* C3 as stated: every verify() call on a registered subject consumes one  *)
(* quota unit and leaves lastAttemptAt at the time of that call, whatever  *)
(* its outcome.                                                            *)
(***************************************************************************)
C3_EveryCallCounts ==
  \A p \in SerialProcs :
     LET c == call[p]
         e == c.req.userEmail
     IN (c.op = "verify" /\ c.pc = "done" /\ c.recoveryData # <<>>)
        => /\ aadhaar_recovery[e][1].recovery_attempts =
                CountedInWindow(c.recoveryData[1], c.now) + 1
           /\ aadhaar_recovery[e][1].last_recovery_attempt = << c.now >>

(***************************************************************************)
(* C3 amended: every verify() call that is not rate limited writes         *)
(* attemptCount = (attempts counted in the current window) + 1 and         *)
(* lastAttemptAt = the time of the call before the outcome is decided; a   *)
(* VerificationFailed call leaves the record so; a successful call then    *)
(* resets it to attemptCount = 0 without lastAttemptAt; a RateLimited call *)
(* leaves the record unchanged.                                            *)
(***************************************************************************)
C3_AttemptBookkeeping ==
  \A p \in SerialProcs :
     LET c == call[p]
         e == c.req.userEmail
         before == c.recoveryData[1]
         counted == [before EXCEPT
                       !.recovery_attempts = CountedInWindow(before, c.now) + 1,
                       !.last_recovery_attempt = << c.now >>]
     IN (c.op = "verify" /\ c.recoveryData # <<>>)
        => /\ c.pc = "updated" => aadhaar_recovery[e] = << counted >>
           /\ (c.pc = "done" /\ IsVerificationFailed(c.resp))
                => aadhaar_recovery[e] = << counted >>
           /\ (c.pc = "done" /\ c.resp = RateLimited)
                => aadhaar_recovery[e] = << before >>
           /\ (c.pc = "done" /\ c.resp = Verified)
                => aadhaar_recovery[e] =
                     << [before EXCEPT !.recovery_attempts = 0,
                                       !.last_recovery_attempt = <<>>] >>

\* A third failed call in a window, made later than the second.
C3_Witness ==
  \E p \in SerialProcs :
     /\ call[p].op = "verify" /\ call[p].pc = "done"
     /\ IsVerificationFailed(call[p].resp)
     /\ call[p].recoveryData[1].recovery_attempts = 2
     /\ call[p].recoveryData[1].last_recovery_attempt # << call[p].now >>
     /\ aadhaar_recovery[call[p].req.userEmail][1].recovery_attempts = 3

(***************************************************************************)
(* C4: quota reset.  A verify() call made 24h or more after the subject's  *)
(* lastAttemptAt, or when none is recorded, is never RateLimited whatever  *)
(* the stored attemptCount; it is the first attempt of a new window (the   *)
(* stored attemptCount is 1 after it fails); and RateLimited is returned   *)
(* only once exactly 5 calls of the window have reached the comparison.    *)
(***************************************************************************)
C4_QuotaReset ==
  [][\A p \in SerialProcs :
       LET e == call'[p].req.userEmail
           c == call[p]
       IN /\ (/\ StartsVerify(p)
               /\ WellFormed(call'[p].req)
               /\ aadhaar_recovery[e] # <<>>
               /\ \/ aadhaar_recovery[e][1].last_recovery_attempt = <<>>
                  \/ clock - aadhaar_recovery[e][1].last_recovery_attempt[1] >= MsPerDay)
              => (/\ call'[p].pc = "fetched"
                  /\ call'[p].newAttempts = 1
                  /\ windowCount'[e] = 1)
          /\ (/\ c.pc = "fetched"
               /\ call'[p].pc = "done"
               /\ \/ c.recoveryData[1].last_recovery_attempt = <<>>
                  \/ c.now - c.recoveryData[1].last_recovery_attempt[1] >= MsPerDay)
              => (/\ IsVerificationFailed(call'[p].resp)
                  /\ aadhaar_recovery'[c.req.userEmail][1].recovery_attempts = 1)
          /\ (StartsVerify(p) /\ call'[p].resp = RateLimited)
              => windowCount[e] = MaxAttempts
          /\ (StartsVerify(p) /\ call'[p].pc = "fetched")
              => windowCount'[e] <= MaxAttempts]_vars

\* A call a day after the fifth failed attempt reached the comparison as attempt 1.
C4_Witness ==
  \E p \in SerialProcs :
     /\ call[p].op = "verify" /\ call[p].pc = "done"
     /\ IsVerificationFailed(call[p].resp)
     /\ call[p].recoveryData[1].recovery_attempts = MaxAttempts
     /\ call[p].now - call[p].recoveryData[1].last_recovery_attempt[1] >= MsPerDay
     /\ aadhaar_recovery[call[p].req.userEmail][1].recovery_attempts = 1

(***************************************************************************)
(* C5: in every reachable state, under every interleaving of register()    *)
(* and verify() calls, each subject's stored attemptCount is in [0,5], and *)
(* no handler is about to write a count that the max_recovery_attempts     *)
(* constraint rejects.                                                     *)
(***************************************************************************)
C5_AttemptCountBounded ==
  /\ \A e \in Emails :
        aadhaar_recovery[e] # <<>>
        => aadhaar_recovery[e][1].recovery_attempts \in 0..MaxRecoveryAttemptsCheck
  /\ \A p \in Procs :
        call[p].pc = "fetched"
        => call[p].newAttempts \in 1..MaxRecoveryAttemptsCheck

\* Two instances are about to write over a stored count of 5, one of them a 5.
C5_Witness ==
  /\ aadhaar_recovery[GoodEmail] # <<>>
  /\ aadhaar_recovery[GoodEmail][1].recovery_attempts = MaxRecoveryAttemptsCheck
  /\ \A p \in Procs : call[p].pc = "fetched"
  /\ \E p \in Procs : call[p].newAttempts = MaxRecoveryAttemptsCheck

(***************************************************************************)
(* C6: verify() hands the key to the delivery channel only in a call that  *)
(* was not rate limited and in which the supplied name and number both     *)
(* match the stored hashes, and the date of birth too when it is checked;  *)
(* a call that ends in NotFound, RateLimited or VerificationFailed has     *)
(* delivered nothing.                                                      *)
(***************************************************************************)
C6_DeliveryOnlyOnMatch ==
  \A p \in SerialProcs :
     LET c == call[p]
         row == c.recoveryData[1]
     IN /\ c.sent # <<>>
           => /\ c.op = "verify"
              /\ c.recoveryData # <<>>
              /\ \/ row.recovery_attempts < MaxAttempts
                 \/ CountedInWindow(row, c.now) = 0
              /\ row.encrypted_name = bcryptHash(NormalizeName(c.req.name), row.salt)
              /\ row.encrypted_aadhaar_number =
                   bcryptHash(StripWhitespace(c.req.aadhaarNumber), row.salt)
              /\ (row.encrypted_dob # <<>> /\ c.req.dob # "")
                   => row.encrypted_dob = << bcryptHash(c.req.dob, row.salt) >>
        /\ (/\ c.pc = "done"
            /\ \/ c.resp \in {NotFound, RateLimited}
               \/ IsVerificationFailed(c.resp))
           => c.sent = <<>>

\* A delivery in a call whose name was typed differently from the registered one.
C6_Witness ==
  \E p \in SerialProcs :
     /\ call[p].sent # <<>>
     /\ call[p].resp = Verified
     /\ call[p].req.name = << "a","b" >>
     /\ call[p].req.dob # ""

C8_DobCheckedWhenStored ==
  \A p \in SerialProcs :
     LET c == call[p]
         row == c.recoveryData[1]
     IN (c.op = "verify" /\ c.pc = "done" /\ c.recoveryData # <<>>)
        => /\ (c.resp = Verified /\ row.encrypted_dob # <<>>)
                => row.encrypted_dob = << bcryptHash(c.req.dob, row.salt) >>
           /\ (row.encrypted_dob = <<>> /\ WellFormed(c.req)
                /\ c.resp # RateLimited)
                => \A d \in Dobs :
                      (c.resp = Verified) =
                         VerificationPassed(
                            VerifyLocals([c.req EXCEPT !.dob = d], row, c.now))

(***************************************************************************)
(* C9: the verifier is not an attribute oracle.  A failed verify() is      *)
(* answered, and leaves the record, exactly as any other request for the   *)
(* same subject that fails against the same record at the same time would, *)
(* whichever attribute mismatched; the failure response carries the        *)
(* remaining-attempts count and nothing else that depends on the request.  *)
(***************************************************************************)
C9_NoAttributeOracle ==
  \A p \in SerialProcs :
     LET c == call[p]
         e == c.req.userEmail
         row == c.recoveryData[1]
     IN (c.op = "verify" /\ c.pc = "done" /\ IsVerificationFailed(c.resp))
        => /\ c.resp.attempts =
                << MaxAttempts - aadhaar_recovery[e][1].recovery_attempts >>
           /\ \A other \in VerificationRequests :
                 LET l == VerifyLocals(other, row, c.now)
                 IN (/\ other.userEmail = e
                     /\ WellFormed(other)
                     /\ ~(l.nameMatch /\ l.aadhaarMatch /\ l.dobMatch))
                    => /\ VerificationFailed(l) = c.resp
                       /\ AttemptUpdate(row, l) = aadhaar_recovery[e][1]

\* A failed call in which only the number mismatched.
C9_Witness ==
  \E p \in SerialProcs :
     /\ call[p].op = "verify" /\ call[p].pc = "done"
     /\ IsVerificationFailed(call[p].resp)
     /\ call[p].nameMatch /\ ~call[p].aadhaarMatch /\ call[p].dobMatch

(***************************************************************************)
(* C10: on a full match, the value verify() passes to the delivery channel *)
(* is the recovery key supplied to the subject's most recent register().   *)
(***************************************************************************)
C10_DeliversRegisteredKey ==
  \A p \in SerialProcs :
     LET c == call[p]
         e == c.req.userEmail
     IN c.sent # <<>>
        => /\ registeredKey[e] # <<>>
           /\ c.sent[1].key = registeredKey[e][1]

(***************************************************************************)
(* C11: registering twice replaces the prior record.  After                *)
(* register(s, A1, k1) and then register(s, A2, k2) there is one record    *)
(* for s, holding the salt drawn by the second call, the hashes of A2 and  *)
(* k2, attemptCount = 0 and no lastAttemptAt; a register() that fails      *)
(* validation changes no record; verify(s, A1) then fails to match when A1 *)
(* differs from A2 (in the normalised name, the number without whitespace, *)
(* or the date of birth that A2 registered) and matches otherwise.         *)
(***************************************************************************)
AttributesDiffer(a1, a2) ==
  \/ NormalizeName(a1.name) # NormalizeName(a2.name)
  \/ StripWhitespace(a1.aadhaarNumber) # StripWhitespace(a2.aadhaarNumber)
  \/ (a2.dob # "" /\ a1.dob # a2.dob)

C11_ReRegisterReplaces ==
  [][\A p \in Procs :
       LET c == call'[p]
           e == c.req.userEmail
       IN /\ (c # call[p] /\ c.op = "store" /\ c.resp.success)
              => /\ \E salt \in Salts :
                       aadhaar_recovery'[e] = << StoreRow(c.req, salt) >>
                 /\ \A o \in Emails \ {e} :
                       aadhaar_recovery'[o] = aadhaar_recovery[o]
          /\ (c # call[p] /\ c.op = "store" /\ ~c.resp.success)
              => aadhaar_recovery' = aadhaar_recovery
          /\ \A q \in Procs \ {p} :
                (/\ StartsVerify(p)
                 /\ call[p].op = "store" /\ call[p].resp.success
                 /\ IsStoreOf(call[p], c.req)
                 /\ call[q].op = "store" /\ call[q].resp.success
                 /\ call[q].req.userEmail = e
                 /\ AttributesOf(call[q].req, aadhaar_recovery[e][1])
                 /\ aadhaar_recovery[e][1].recovery_attempts = 0)
                => /\ c.pc = "fetched"
                   /\ VerificationPassed(c) = ~AttributesDiffer(c.req, call[q].req)]_vars

(***************************************************************************)
(* Vocabulary of the codec's properties                                    *)
(***************************************************************************)
\* An envelope the current encoder wrote and nothing changed since.
CurrentEnvelope ==
  /\ crypto.pc \in {"encrypted", "decrypted"}
  /\ crypto.encoder = "current"
  /\ ~crypto.truncated

\* The inputs encrypt accepts and writes an envelope for that decrypt reads
\* back: a plaintext, a secret and a salt that are not empty, and a version
\* that fits the envelope's four-byte tag.
EncodableInput ==
  /\ ~Falsy(crypto.data)
  /\ ~Falsy(crypto.encryptionKey.key)
  /\ ~Falsy(crypto.encryptionKey.salt)
  /\ Len(Utf8parse(crypto.encryptionKey.version)) <= 4

C13_KeySensitivity ==
  (/\ CurrentEnvelope
   /\ crypto.pc = "decrypted"
   /\ crypto.decryptionKey # crypto.encryptionKey)
  => ~crypto.decrypted.ok

(***************************************************************************)
(* C14: backward compatibility.  decrypt chooses its branch by the length  *)
(* of the envelope so that every legacy-format envelope (a 4-word IV, then *)
(* at least one cipher block, no version word) is taken apart by the       *)
(* legacy branch and decrypts to its plaintext, and no envelope of the     *)
(* current format passes the legacy length test.                           *)
(***************************************************************************)
C14_BackwardCompatible ==
  (crypto.pc \in {"encrypted", "decrypted"} /\ ~crypto.truncated
   /\ crypto.encrypted.ok /\ EncodableInput)
  => LET combined == Base64parse(crypto.encrypted.value)
     IN /\ crypto.encoder = "legacy"
             => /\ ~HasVersionInfo(combined)
                /\ (crypto.pc = "decrypted"
                    /\ crypto.decryptionKey = crypto.encryptionKey)
                     => crypto.decrypted = Return(crypto.data)
        /\ crypto.encoder = "current" => HasVersionInfo(combined)

(***************************************************************************)
(* C15: decrypt reports three pairwise distinguishable errors: (a) a wrong *)
(* key, (b) a truncated or corrupt envelope, (c) a decryption that         *)
(* succeeds and yields empty content; the error of a call with one of      *)
(* these causes is not the error of any call with another of them.         *)
(***************************************************************************)
\* The outcomes of decrypt for the envelope of 'x' cut short, under its key.
TruncatedOutcomes(encryptionKey) ==
  LET e == EncryptCombined(<< "x" >>, encryptionKey, 1)
  IN UNION { decrypt(SubSeq(e, 1, n), encryptionKey) :
             n \in TruncatedLengths(Len(e)) \ {0} }

\* The outcomes of decrypt for an envelope of the current format that holds
\* the empty plaintext, under its key.
EmptyContentOutcomes(encryptionKey) ==
  decrypt(EncryptCombined(<< >>, encryptionKey, 1), encryptionKey)

C15_DistinctErrors ==
  (/\ crypto.pc = "decrypted"
   /\ crypto.encoder = "current"
   /\ EncodableInput
   /\ ~Falsy(crypto.decryptionKey.key)
   /\ ~crypto.decrypted.ok)
  => LET k == crypto.decryptionKey
         ek == crypto.encryptionKey
     IN /\ (~crypto.truncated /\ (k.key # ek.key \/ k.salt # ek.salt))
             => /\ crypto.decrypted \notin TruncatedOutcomes(ek)
                /\ crypto.decrypted \notin EmptyContentOutcomes(ek)
        /\ (crypto.truncated /\ Len(crypto.encrypted.value) > 0 /\ k = ek)
             => crypto.decrypted \notin EmptyContentOutcomes(ek)

(***************************************************************************)
(* C16: the iteration count of the key derivation is the one of the format *)
(* version the envelope was written under, so an envelope written by the   *)
(* prior version of the service (with its lower count) still decrypts to   *)
(* its plaintext now that the count has been raised.                       *)
(***************************************************************************)
\* The iteration count of the encoder that wrote the envelope.
IterationsOfEncoder ==
  IF crypto.encoder = "prior" THEN PriorIterations ELSE ITERATIONS

C16_IterationsPerVersion ==
  (/\ crypto.pc \in {"encrypted", "decrypted"}
   /\ crypto.encoder \in {"prior", "current"}
   /\ ~crypto.truncated
   /\ crypto.encrypted.ok
   /\ EncodableInput)
  => /\ DecryptLocals(crypto.encrypted.value, crypto.encryptionKey).key =
          PBKDF2(crypto.encryptionKey.key, crypto.encryptionKey.salt,
                 IterationsOfEncoder)
     /\ (crypto.pc = "decrypted" /\ crypto.decryptionKey = crypto.encryptionKey)
          => crypto.decrypted = Return(crypto.data)

(***************************************************************************)
(* Vocabulary of the vault's properties                                    *)
(***************************************************************************)
\* The number of entries of the list with this id.
CountOf(passwords, id) ==
  Cardinality({ i \in 1..Len(passwords) : passwords[i].id = id })

(***************************************************************************)
(* C17: vault idempotence.  When savePassword is called twice in a row     *)
(* with the same id under the same key, the second call leaves the list no *)
(* longer than the first call left it, and afterwards the vault holds one  *)
(* entry for that id: the second call's entry with the later updatedAt,    *)
(* the time of the second call, which is before neither the updatedAt the  *)
(* first call stored nor the one the second call was given.                *)
(***************************************************************************)
C17_UpsertTwice ==
  (vaultCall.op = "savePassword" /\ vaultCall.again) =>
    \A passwords \in StoredPasswords :
      /\ vaultCall.existing # << >>
      /\ Len(passwords) <= vaultCall.loadedLength
      /\ CountOf(passwords, vaultCall.passwordId) = 1
      /\ EntryOf(passwords, vaultCall.passwordId)
           = << [vaultCall.password EXCEPT !.updatedAt = vaultCall.now] >>
      /\ vaultCall.now >= vaultCall.existing[1].updatedAt
      /\ vaultCall.now >= vaultCall.password.updatedAt

\* A second savePassword for an id has replaced, in a vault of two entries,
\* the entry of the first under another name and at a later time.
C17_Witness ==
  /\ vaultCall.op = "savePassword"
  /\ vaultCall.again
  /\ vaultCall.loadedLength = 2
  /\ vaultCall.existing # << >>
  /\ vaultCall.existing[1].name # vaultCall.password.name
  /\ vaultCall.now > vaultCall.existing[1].updatedAt
  /\ \A passwords \in StoredPasswords : Len(passwords) = 2

(***************************************************************************)
(* C18: starting from an empty vault, after any sequence of savePassword   *)
(* and deletePassword calls under one key no two entries of the vault have *)
(* the same id, and after deletePassword(id) the vault has no entry with   *)
(* that id.                                                                *)
(***************************************************************************)
C18_UniqueIds ==
  \A passwords \in StoredPasswords :
    /\ \A i, j \in 1..Len(passwords) :
          passwords[i].id = passwords[j].id => i = j
    /\ vaultCall.op = "deletePassword" =>
          CountOf(passwords, vaultCall.passwordId) = 0

\* deletePassword has taken one of two entries out of the vault.
C18_Witness ==
  /\ vaultCall.op = "deletePassword"
  /\ vaultCall.existing # << >>
  /\ vaultCall.loadedLength = 2
  /\ \A passwords \in StoredPasswords :
        /\ Len(passwords) = 1
        /\ passwords[1].id # vaultCall.passwordId

(***************************************************************************)
(* C19: per id, the stored updatedAt never decreases across writes.  In    *)
(* any sequence of savePassword calls the first appends the entry with the *)
(* updatedAt the caller supplied (PasswordForm's Date.now()), the later    *)
(* ones replace it with updatedAt set to their own Date.now(), and each    *)
(* write leaves an updatedAt at or above the one stored before it; no      *)
(* stored updatedAt is ahead of the clock.                                 *)
(***************************************************************************)
C19_UpdatedAtMonotonic ==
  \A passwords \in StoredPasswords :
    /\ \A i \in 1..Len(passwords) : passwords[i].updatedAt <= dateNow
    /\ vaultCall.op = "savePassword" =>
         LET stored == EntryOf(passwords, vaultCall.passwordId)
         IN /\ stored # << >>
            /\ IF vaultCall.existing = << >>
               THEN stored[1].updatedAt = vaultCall.password.updatedAt
               ELSE /\ stored[1].updatedAt = vaultCall.now
                    /\ stored[1].updatedAt >= vaultCall.existing[1].updatedAt

\* A savePassword that did not follow one for the same id has replaced an
\* older entry, and the clock moved on between the form's Date.now() and the
\* call's.
C19_Witness ==
  /\ vaultCall.op = "savePassword"
  /\ ~vaultCall.again
  /\ vaultCall.existing # << >>
  /\ vaultCall.now > vaultCall.password.updatedAt
  /\ \A passwords \in StoredPasswords :
        EntryOf(passwords, vaultCall.passwordId)[1].updatedAt
          > vaultCall.existing[1].updatedAt

\* The ids that were given to savePassword and not to deletePassword since.
UpsertedIds == { id \in PasswordIds : upserted[id] # << >> }

(***************************************************************************)
(* C20 as stated: the persisted vault is a map from id to entry.  After    *)
(* generateKey(), saving an empty vault and any sequence of savePassword   *)
(* and deletePassword calls, getVault returns exactly the entries saved    *)
(* and not deleted since, one per id, each equal field for field to the    *)
(* entry given in the last savePassword of that id.                        *)
(***************************************************************************)
C20_MapOfGivenEntries ==
  \A passwords \in StoredPasswords :
    /\ Len(passwords) = Cardinality(UpsertedIds)
    /\ \A id \in UpsertedIds : EntryOf(passwords, id) = upserted[id]

(***************************************************************************)
(* C20 amended: after generateKey(), saving an empty vault (or none) and   *)
(* any sequence of savePassword and deletePassword calls, getVault returns *)
(* exactly one entry for every id saved and not deleted since, and no      *)
(* other; the entry has the fields given in the last savePassword of that  *)
(* id except updatedAt: an entry that was appended has the updatedAt       *)
(* given, an entry that replaced another has the Date.now() of the         *)
(* replacing call, which is at or after the one given.  One savePassword   *)
(* into an empty vault yields exactly one entry equal to the one given.    *)
(***************************************************************************)
C20_MapOfStampedEntries ==
  \A passwords \in StoredPasswords :
    /\ Len(passwords) = Cardinality(UpsertedIds)
    /\ \A id \in UpsertedIds :
          LET stored == EntryOf(passwords, id)
              given == upserted[id][1]
          IN /\ stored # << >>
             /\ stored[1].id = given.id
             /\ stored[1].name = given.name
             /\ stored[1].updatedAt >= given.updatedAt
             /\ stored[1].updatedAt <= dateNow
    /\ vaultCall.op = "savePassword" =>
          /\ upserted[vaultCall.passwordId] = << vaultCall.password >>
          /\ EntryOf(passwords, vaultCall.passwordId)
               = IF vaultCall.existing = << >> THEN << vaultCall.password >>
                 ELSE << Stamped(vaultCall.password, vaultCall.now) >>
          /\ vaultCall.loadedLength = 0 => passwords = << vaultCall.password >>

\* The vault holds two entries, one of them with a name that JSON escapes;
\* the last call replaced an entry after the clock had moved on, so that the
\* stored updatedAt is not the one given.
C20_Witness ==
  /\ UpsertedIds = PasswordIds
  /\ vaultCall.op = "savePassword"
  /\ vaultCall.existing # << >>
  /\ \A passwords \in StoredPasswords :
        /\ Len(passwords) = 2
        /\ \E i \in 1..2 : Quote \in { passwords[i].name[k] :
                                       k \in 1..Len(passwords[i].name) }
        /\ EntryOf(passwords, vaultCall.passwordId)[1].updatedAt
             > vaultCall.password.updatedAt

(***************************************************************************)
(* The browser session: the vault item and the encryption_key_<userId>     *)
(* item of localStorage, the key held in the state of the page, and the    *)
(* calls that load, export and import the vault.  A file is a record:      *)
(* json says whether JSON.parse accepts its text, the other fields are the *)
(* members of the object parsed.                                           *)
(***************************************************************************)
\* The keys a caller holds: the one generated, and one with another secret.
SessionKeys == { BaseKey, [BaseKey EXCEPT !.key = << "b", "2" >>] }

\* The calls of one session.
MaxCalls == 4

\* The record of a call that starts in this state.
SessionCall(op, encryptionKey) ==
  [session EXCEPT !.op = op, !.key = encryptionKey, !.before = localStorage,
                  !.returned = << >>, !.raised = FALSE, !.vaultLoaded = FALSE,
                  !.calls = @ + 1]

\* What a call gets from something that returns one of these values, << >>
\* standing for an error that left it.
OutcomesOf(values) ==
  IF values = { } THEN { << >> } ELSE { << v >> : v \in values }

\* PasswordStorageService.getVault(userId, encryptionKey) called on its own.
GetVault ==
  /\ \E encryptionKey \in SessionKeys :
       \E outcome \in OutcomesOf(getVault(localStorage, encryptionKey, dateNow)) :
         session' = [SessionCall("getVault", encryptionKey) EXCEPT
                       !.returned = outcome, !.raised = outcome = << >>]
  /\ UNCHANGED vaultVars

\* The warning member of an export.
ExportWarning ==
  "This file contains encrypted data. You will need your decryption key to access the passwords."

\* Variant of ExportData: the envelope left out.
ExportData_NoEnvelope(encryptedVaultData, now) ==
  [encryptedVault |-> << >>, exportDate |-> now, version |-> "1.0",
   warning |-> ExportWarning]

\* The exportData object of exportVault.
ExportData(encryptedVaultData, now) ==
  [encryptedVault |-> encryptedVaultData, exportDate |-> now,
   version |-> "1.0", warning |-> ExportWarning]

\* PasswordStorageService.exportVault(userId, encryptionKey): the file the
\* browser downloads stays on the disk of the user.
ExportVault ==
  /\ session' =
       IF localStorage = << >> \/ Falsy(localStorage[1])
       THEN [SessionCall("exportVault", userKey) EXCEPT !.raised = TRUE]
       ELSE [SessionCall("exportVault", userKey) EXCEPT
               !.returned = << ExportData(localStorage[1], dateNow) >>,
               !.artifact = << ExportData(localStorage[1], dateNow) >>]
  /\ UNCHANGED vaultVars

\* A string that lost its last character.
CutShort(str) == SubSeq(str, 1, Len(str) - 1)

\* The vault files the user can pick: the export on disk, whole or damaged,
\* and a file that is not JSON.
VaultFiles ==
  { [json |-> FALSE, encryptedVault |-> << >>] }
  \cup { [json |-> TRUE, encryptedVault |-> file.encryptedVault] :
           file \in { session.artifact[i] : i \in DOMAIN session.artifact } }
  \cup { [json |-> TRUE, encryptedVault |-> CutShort(file.encryptedVault)] :
           file \in { session.artifact[i] : i \in DOMAIN session.artifact } }

\* The key files the user can pick: the downloads of the keys, and the file
\* of a key whose secret is empty.
KeyFiles ==
  { [json |-> TRUE, encryptionKey |-> k] :
      k \in SessionKeys \cup { [BaseKey EXCEPT !.key = << >>] } }

\* useImportVaultFlow.processImport(vaultFile, keyFile) for a signed-in user
\* and a vault file that has an encryptedVault.  onVaultLoaded is
\* Index.handleVaultLoaded, which puts the key into the state of the page.
ProcessImport ==
  \E vaultFile \in VaultFiles, keyFile \in KeyFiles :
    LET encryptionKey == keyFile.encryptionKey
        started == SessionCall("processImport", encryptionKey)
    IN IF ~vaultFile.json \/ ~keyFile.json
          \/ Falsy(encryptionKey.key) \/ Falsy(encryptionKey.salt)
          \/ encryptionKey.timestamp = 0
       THEN /\ session' = [started EXCEPT !.raised = TRUE]
            /\ UNCHANGED vaultVars
       ELSE /\ localStorage' = << vaultFile.encryptedVault >>
            /\ \E testVault \in
                  OutcomesOf(getVault(<< vaultFile.encryptedVault >>,
                                      encryptionKey, dateNow)) :
                 /\ session' =
                      IF testVault = << >>
                      THEN [started EXCEPT !.raised = TRUE]
                      ELSE [started EXCEPT !.returned = testVault,
                                           !.keyItem = << keyFile >>,
                                           !.vaultLoaded = TRUE]
                 /\ userKey' = IF testVault = << >> THEN userKey
                               ELSE encryptionKey
            /\ UNCHANGED << dateNow, vaultCall, upserted >>

InitSession ==
  RecoveryInit /\ crypto = CryptoIdle /\ VaultIdle /\ ClientIdle

NextSession ==
  /\ session.calls < MaxCalls
  /\ \/ SaveEmptyVault /\ session' = SessionCall("saveVault", userKey)
     \/ SavePassword /\ session' = SessionCall("savePassword", userKey)
     \/ DeletePassword /\ session' = SessionCall("deletePassword", userKey)
     \/ GetVault
     \/ ExportVault
     \/ ProcessImport
  /\ UNCHANGED << recoveryVars, crypto, tabs, setup, extraction >>

SpecSession == InitSession /\ [][NextSession]_vars

(***************************************************************************)
(* Claims on the session                                                   *)
(***************************************************************************)
\* No outcome of decrypt on the item under the key is a text that parses.
Undecodable(item, encryptionKey) ==
  /\ item # << >>
  /\ \A d \in decrypt(item[1], encryptionKey) :
        ~d.ok \/ ~JSONparse(d.value).ok

\* C21: a load (getVault) returns and raises nothing, leaves the stored item
\* as it was, and returns the fresh empty vault when no item is stored and
\* when the stored item cannot be decoded or parsed under the key supplied.
C21_LoadNeverRaisesNorWrites ==
  session.op = "getVault" =>
    /\ ~session.raised
    /\ session.returned # << >>
    /\ localStorage = session.before
    /\ (session.before = << >> \/ Undecodable(session.before, session.key))
         => session.returned = << EmptyVault(dateNow) >>

\* A load under a key that cannot decode the stored item has returned.
C21_Witness ==
  /\ session.op = "getVault"
  /\ Undecodable(session.before, session.key)
  /\ session.returned = << EmptyVault(dateNow) >>
  /\ localStorage = session.before

\* C22: an export emits the stored item as it is, still encrypted, with the
\* export date, the version and the warning and nothing else, whether or not
\* the key of the session can decode the item; the stored item stays as it
\* was; with no item stored the call fails and emits nothing.
C22_ExportIsStoredBlob ==
  session.op = "exportVault" =>
    /\ localStorage = session.before
    /\ IF session.before = << >>
       THEN session.raised /\ session.returned = << >>
       ELSE /\ ~session.raised
            /\ session.returned =
                 << [encryptedVault |-> session.before[1],
                     exportDate |-> dateNow, version |-> "1.0",
                     warning |-> ExportWarning] >>

\* An export was made of an item that holds an entry and that the key of the
\* session cannot decode.
C22_Witness ==
  /\ session.op = "exportVault"
  /\ session.before # << >>
  /\ Undecodable(session.before, session.key)
  /\ \E k \in SessionKeys :
        \E vault \in getVault(session.before, k, dateNow) :
          vault.passwords # << >>
  /\ session.returned # << >>
  /\ session.returned[1].encryptedVault = localStorage[1]

\* The entries that the item holds: those of the vault that getVault returns
\* for it under one of the keys.
EntriesOf(item) ==
  UNION { { vault.passwords[i] : i \in DOMAIN vault.passwords } :
            vault \in UNION { getVault(item, k, dateNow) : k \in SessionKeys } }

\* C27: savePassword and deletePassword leave every stored entry with another
\* id present and unchanged whatever key the caller passes, and an item that
\* the key passed cannot decode is not overwritten.
C27_OtherEntriesKept ==
  session.op \in { "savePassword", "deletePassword" } =>
    /\ \A e \in EntriesOf(session.before) :
          e.id # vaultCall.passwordId => e \in EntriesOf(localStorage)
    /\ Undecodable(session.before, session.key) =>
         localStorage = session.before

\* C29: processImport hands the key to onVaultLoaded and stores it in the
\* encryption_key item only when the imported item decrypts under that key;
\* when it does not, the call reports an error and the vault item is the one
\* stored before the call.
C29_ImportOnlyIfDecrypts ==
  session.op = "processImport" =>
    /\ session.vaultLoaded =>
         /\ ~Undecodable(localStorage, session.key)
         /\ session.keyItem = << [json |-> TRUE, encryptionKey |-> session.key] >>
    /\ Undecodable(localStorage, session.key) =>
         /\ session.raised
         /\ ~session.vaultLoaded
         /\ localStorage = session.before

(***************************************************************************)
(* Two callers on one item.  savePassword and deletePassword read the item *)
(* (getVault) and write it (saveVault) without any lock or version check,  *)
(* and localStorage is shared by the tabs of an origin: the read and the   *)
(* write of a call are two steps, and the steps of two tabs interleave.    *)
(***************************************************************************)
\* The vaults that the item holds when the callers start.
InitialVaults ==
  { EmptyVault(1),
    [passwords |-> << [id |-> << "1" >>, name |-> << "a" >>, updatedAt |-> 1] >>,
     lastSync |-> 1],
    [passwords |-> << [id |-> << "1" >>, name |-> << "a" >>, updatedAt |-> 1],
                      [id |-> << "2" >>, name |-> << "a" >>, updatedAt |-> 1] >>,
     lastSync |-> 1] }

\* The call of a tab from its first line to the return of getVault.
TabLoaded(op, password, passwordId, vault) ==
  [pc |-> "loaded", op |-> op, password |-> password,
   passwordId |-> passwordId, now |-> dateNow, vault |-> vault,
   savesBefore |-> Len(tabs.saved)]

\* savePassword, line 28: const vault = this.getVault(userId, encryptionKey)
TabLoadForSave(t) ==
  /\ tabs.of[t].pc = "idle"
  /\ \E id \in PasswordIds, name \in PasswordNames :
       \E vault \in getVault(localStorage, userKey, dateNow) :
         tabs' = [tabs EXCEPT !.of[t] =
                    TabLoaded("savePassword",
                              [id |-> id, name |-> name, updatedAt |-> dateNow],
                              id, vault)]
  /\ UNCHANGED vaultVars

\* deletePassword, line 42: const vault = this.getVault(userId, encryptionKey)
TabLoadForDelete(t) ==
  /\ tabs.of[t].pc = "idle"
  /\ \E passwordId \in PasswordIds :
       \E vault \in getVault(localStorage, userKey, dateNow) :
         tabs' = [tabs EXCEPT !.of[t] =
                    TabLoaded("deletePassword", NoVaultCall.password,
                              passwordId, vault)]
  /\ UNCHANGED vaultVars

\* Variant of TabVault: built from the vault that the item holds at the time
\* of the write.
TabVault_Reloaded(c, item) ==
  LET vault == CHOOSE v \in getVault(item, userKey, dateNow) : TRUE
  IN IF c.op = "savePassword" THEN SavedVault(vault, c.password, c.now)
     ELSE [vault EXCEPT !.passwords = WithoutId(vault.passwords, c.passwordId),
                        !.lastSync = c.now]

\* The vault that the call hands to saveVault: built from the vault that its
\* getVault returned, whatever the item holds by now.
TabVault(c, item) ==
  IF c.op = "savePassword" THEN SavedVault(c.vault, c.password, c.now)
  ELSE [c.vault EXCEPT !.passwords = WithoutId(c.vault.passwords, c.passwordId),
                       !.lastSync = c.now]

\* The rest of the call: the change to the vault loaded, then saveVault.
TabSave(t) ==
  /\ tabs.of[t].pc = "loaded"
  /\ \E iv \in VaultIvs :
       localStorage' = saveVault(localStorage,
                                 TabVault(tabs.of[t], localStorage), userKey, iv)
  /\ tabs' = [tabs EXCEPT !.of[t].pc = "done", !.saved = Append(@, t)]
  /\ UNCHANGED << dateNow, userKey, vaultCall, upserted >>

InitTabs ==
  /\ RecoveryInit
  /\ crypto = CryptoIdle
  /\ dateNow = 1
  /\ userKey = BaseKey
  /\ vaultCall = NoVaultCall
  /\ upserted = [id \in PasswordIds |-> << >>]
  /\ session = SessionIdle
  /\ setup = SetupIdle
  /\ extraction = ExtractionIdle
  /\ \E initial \in InitialVaults, iv \in VaultIvs :
       /\ localStorage = saveVault(<< >>, initial, BaseKey, iv)
       /\ tabs = [TabsIdle EXCEPT !.initial = initial]

NextTabs ==
  /\ \E t \in Tabs : TabLoadForSave(t) \/ TabLoadForDelete(t) \/ TabSave(t)
  /\ UNCHANGED << recoveryVars, crypto, session, setup, extraction >>

SpecTabs == InitTabs /\ [][NextTabs]_vars

\* The entry that a call leaves for its id.
EntryLeftBy(c) ==
  IF c.op = "savePassword" THEN << c.password >> ELSE << >>

\* Both calls are over; first and last are the tabs in the order of saving.
BothSaved == Len(tabs.saved) = 2

\* Both calls had loaded before either saved.
BothLoadedFirst ==
  /\ BothSaved
  /\ \A t \in Tabs : tabs.of[t].savesBefore = 0

\* The second call loaded after the first had saved.
Serialized ==
  /\ BothSaved
  /\ tabs.of[tabs.saved[1]].savesBefore = 0
  /\ tabs.of[tabs.saved[2]].savesBefore = 1

\* C28: last write wins.  When both calls loaded before either saved, the
\* stored vault is the result of the call that saved last on the vault from
\* before both, and the change of the other call is lost; when the second
\* call loaded after the first had saved, the vault holds both changes.
C28_LastWriteWins ==
  BothSaved =>
    LET first == tabs.of[tabs.saved[1]]
        last == tabs.of[tabs.saved[2]]
        ExpectedEntry(id) ==
          IF id = last.passwordId THEN EntryLeftBy(last)
          ELSE IF Serialized /\ id = first.passwordId THEN EntryLeftBy(first)
          ELSE EntryOf(tabs.initial.passwords, id)
    IN \A vault \in getVault(localStorage, userKey, dateNow) :
         /\ \A id \in PasswordIds :
               EntryOf(vault.passwords, id) = ExpectedEntry(id)
         /\ \A i \in DOMAIN vault.passwords :
               vault.passwords[i].id \in PasswordIds
         /\ Len(vault.passwords)
              = Cardinality({ id \in PasswordIds : ExpectedEntry(id) # << >> })

\* Both calls loaded first, on different ids, and the entry that the first
\* to save had added is not in the stored vault.
C28_Witness ==
  /\ BothLoadedFirst
  /\ tabs.of[tabs.saved[1]].op = "savePassword"
  /\ tabs.of[tabs.saved[1]].passwordId # tabs.of[tabs.saved[2]].passwordId
  /\ tabs.initial.passwords = << >>
  /\ \A vault \in getVault(localStorage, userKey, dateNow) :
        EntryOf(vault.passwords, tabs.of[tabs.saved[1]].passwordId) = << >>

(***************************************************************************)
(* The setup of the recovery (Index.handleAadhaarSetup, saveAadhaarToVault,*)
(* AadhaarService.storeAadhaarRecovery) and what the client sends to the   *)
(* servers: the register and verify requests of the recovery service and   *)
(* the backup it uploads to Google Drive.  The encryption_key_<userId>     *)
(* item is session.keyItem.                                                *)
(***************************************************************************)
\* The steps of one run of the client.
MaxSetupSteps == 5

\* The details that extractAadhaarFromPDF gave for the document of the user.
SetupDetails ==
  [name |-> << "A", "b" >>, aadhaarNumber |-> SpacedNumber, dob |-> "01/01/1990"]

\* What fetch can give for the register request.
ServerResponses ==
  { [rejected |-> TRUE, ok |-> FALSE, success |-> FALSE],
    [rejected |-> FALSE, ok |-> FALSE, success |-> FALSE],
    [rejected |-> FALSE, ok |-> TRUE, success |-> FALSE],
    [rejected |-> FALSE, ok |-> TRUE, success |-> TRUE] }

\* A step of the client that starts in this state.
SetupStep(op) ==
  [setup EXCEPT !.op = op, !.before = localStorage, !.raised = FALSE,
                !.steps = @ + 1]

\* The body of the request to store-aadhaar-recovery.
StoreRequestBody(userEmail, aadhaarDetails, decryptionKey) ==
  [userEmail |-> userEmail, name |-> aadhaarDetails.name,
   aadhaarNumber |-> aadhaarDetails.aadhaarNumber, dob |-> aadhaarDetails.dob,
   decryptionKey |-> decryptionKey]

\* The body of the request to verify-aadhaar-recovery.
VerifyRequestBody(userEmail, aadhaarDetails) ==
  [userEmail |-> userEmail, name |-> aadhaarDetails.name,
   aadhaarNumber |-> aadhaarDetails.aadhaarNumber, dob |-> aadhaarDetails.dob]

\* handleAadhaarSetup up to the fetch of storeAadhaarRecovery: the key is
\* generated and put into the state of the page, the request is sent.
StartAadhaarSetup ==
  /\ setup.pc = "idle"
  /\ \E newKey \in SessionKeys :
       /\ userKey' = newKey
       /\ setup' = [SetupStep("handleAadhaarSetup") EXCEPT
                      !.pc = "registering", !.newKey = newKey,
                      !.userEmail = GoodEmail,
                      !.sent = << [to |-> "store-aadhaar-recovery",
                                   body |-> StoreRequestBody(GoodEmail,
                                              SetupDetails, newKey)] >>]
  /\ UNCHANGED << localStorage, dateNow, vaultCall, upserted, session >>

\* Variant of StoreSucceeded: every answer taken for a success.
StoreSucceeded_Always(response) == TRUE

\* storeAadhaarRecovery returns without an error: the fetch was answered,
\* response.ok holds and the result has success.
StoreSucceeded(response) ==
  ~response.rejected /\ response.ok /\ response.success

\* saveAadhaarToVault after storeAadhaarRecovery returned: the vault of the
\* item under the key with userEmail set, saved.
VaultWithEmail(vault, userEmail) ==
  [passwords |-> vault.passwords, lastSync |-> vault.lastSync,
   userEmail |-> userEmail]

\* The answer to the register request arrives: storeAadhaarRecovery returns
\* or throws, and saveAadhaarToVault and handleAadhaarSetup run to their end.
RegisterResponds ==
  /\ setup.pc = "registering"
  /\ \E response \in ServerResponses, iv \in VaultIvs :
       IF StoreSucceeded(response)
       THEN /\ \E vault \in getVault(localStorage, setup.newKey, dateNow) :
                 localStorage' =
                   saveVault(localStorage,
                             VaultWithEmail(vault, setup.userEmail),
                             setup.newKey, iv)
            /\ session' = [session EXCEPT
                             !.keyItem = << [json |-> TRUE,
                                             encryptionKey |-> setup.newKey] >>]
            /\ setup' = [SetupStep("registered") EXCEPT
                           !.pc = "idle", !.response = response,
                           !.completed = @ \cup { setup.newKey }]
       ELSE /\ setup' = [SetupStep("registered") EXCEPT
                           !.pc = "idle", !.response = response,
                           !.raised = TRUE]
            /\ UNCHANGED << localStorage, session >>
  /\ UNCHANGED << dateNow, userKey, vaultCall, upserted >>

\* The dashboard is shown: the page holds a key and no setup is under way.
OnDashboard == setup.pc = "idle" /\ session.keyItem # << >>

\* SyncPage.handleUploadToGoogleDrive up to the fetch of
\* GoogleDriveService.uploadVaultToGoogleDrive.
UploadToGoogleDrive ==
  /\ OnDashboard
  /\ \E vault \in getVault(localStorage, userKey, dateNow) :
       setup' = [SetupStep("handleUploadToGoogleDrive") EXCEPT
                   !.sent = << [to |-> "drive",
                                body |-> stringifyVault(vault)] >>]
  /\ UNCHANGED << vaultVars, session >>

\* AadhaarService.verifyAadhaarForRecovery up to its fetch.
VerifyAadhaarForRecovery ==
  /\ setup.pc = "idle"
  /\ setup' = [SetupStep("verifyAadhaarForRecovery") EXCEPT
                 !.sent = << [to |-> "verify-aadhaar-recovery",
                              body |-> VerifyRequestBody(GoodEmail,
                                                         SetupDetails)] >>]
  /\ UNCHANGED << vaultVars, session >>

InitSetup ==
  RecoveryInit /\ crypto = CryptoIdle /\ VaultIdle /\ ClientIdle

NextSetup ==
  /\ setup.steps < MaxSetupSteps
  /\ \/ StartAadhaarSetup
     \/ RegisterResponds
     \/ UploadToGoogleDrive
     \/ VerifyAadhaarForRecovery
     \/ /\ OnDashboard
        /\ SavePassword
        /\ setup' = SetupStep("savePassword")
        /\ UNCHANGED session
     \/ /\ OnDashboard
        /\ DeletePassword
        /\ setup' = SetupStep("deletePassword")
        /\ UNCHANGED session
  /\ UNCHANGED << recoveryVars, crypto, tabs, extraction >>

SpecSetup == InitSetup /\ [][NextSetup]_vars

(***************************************************************************)
(* Claims on the setup and on what is sent                                 *)
(***************************************************************************)
\* The file that JSON.stringify(key) makes.
KeyFileOf(encryptionKey) == [json |-> TRUE, encryptionKey |-> encryptionKey]

\* C30: the vault item carries a userEmail only after a register request was
\* answered with success; when the register request fails the error leaves
\* saveAadhaarToVault and the item stays as it was; the new key is in the
\* encryption_key item only after saveAadhaarToVault returned without error.
C30_EmailAndKeyAfterRegister ==
  /\ setup.pc = "registering" => localStorage = setup.before
  /\ \A k \in SessionKeys :
        \A vault \in getVault(localStorage, k, dateNow) :
          "userEmail" \in DOMAIN vault => setup.completed # { }
  /\ \A k \in SessionKeys :
        session.keyItem = << KeyFileOf(k) >> => k \in setup.completed
  /\ setup.op = "registered" =>
       IF ~setup.response.rejected /\ setup.response.ok
          /\ setup.response.success
       THEN /\ ~setup.raised
            /\ session.keyItem = << KeyFileOf(setup.newKey) >>
            /\ \A vault \in getVault(localStorage, setup.newKey, dateNow) :
                  /\ "userEmail" \in DOMAIN vault
                  /\ vault.userEmail = setup.userEmail
       ELSE /\ setup.raised
            /\ localStorage = setup.before
            /\ session.keyItem # << KeyFileOf(setup.newKey) >>
                 \/ setup.newKey \in setup.completed

\* A register request failed after an earlier setup had completed: the item
\* of that setup, with its userEmail, is still stored and the key item is
\* not the new key.
C30_Witness ==
  /\ setup.op = "registered"
  /\ setup.raised
  /\ setup.completed # { }
  /\ setup.newKey \notin setup.completed
  /\ localStorage = setup.before
  /\ localStorage # << >>
  /\ session.keyItem # << KeyFileOf(setup.newKey) >>

\* C23: in what the client sends to a server (the backup uploaded to Google
\* Drive, the register and verify requests of the recovery service) no vault
\* entry is readable, the body of an upload being no vault in plaintext, and
\* no request carries the secret of a key.
C23_NothingPlainLeaves ==
  \A i \in DOMAIN setup.sent :
    /\ setup.sent[i].to = "drive" =>
         \/ ~JSONparse(setup.sent[i].body).ok
         \/ JSONparse(setup.sent[i].body).value.passwords = << >>
    /\ setup.sent[i].to # "drive" =>
         \/ "decryptionKey" \notin DOMAIN setup.sent[i].body
         \/ Falsy(setup.sent[i].body.decryptionKey.key)

(***************************************************************************)
(* The regular expressions of AadhaarService, as JavaScript runs them: a   *)
(* pattern is a sequence of elements matched from left to right, each      *)
(* element giving the places where it can end in the order in which the    *)
(* engine tries them (the longest run first for a quantified class, the    *)
(* alternatives of a group in the order written), and the engine taking    *)
(* the first way through.  The texts of the model hold no Devanagari, so   *)
(* the alternatives in that script, which then never match, are left out.  *)
(***************************************************************************)
\* The bound of * and +.
Unbounded == 1000

UpperChar(c) ==
  IF \E i \in 1..26 : LowerCase[i] = c
  THEN UpperCase[CHOOSE i \in 1..26 : LowerCase[i] = c]
  ELSE c

toUpperCase(s) == [i \in 1..Len(s) |-> UpperChar(s[i])]

UpperLetters == { UpperCase[i] : i \in 1..26 }

Whitespace == { " ", "\t", "\n" }

\* The class \w.
WordChars == Letters \cup Digits \cup { "_" }

\* String.prototype.includes
includes(str, searchString) ==
  \E i \in 1..(Len(str) - Len(searchString) + 1) :
     SubSeq(str, i, i + Len(searchString) - 1) = searchString

\* The elements of a pattern.
Class(chars, min, max) ==
  [type |-> "class", chars |-> chars, min |-> min, max |-> max, alts |-> << >>]

\* (?:a|b|...) of literals
Alternatives(alts) ==
  [type |-> "alts", chars |-> { }, min |-> 0, max |-> 0, alts |-> alts]

\* \b, (?:^|\n) and (?:\n|$) under the flag m, (?:^|\s) and (?:\s|$) without.
Anchor(type) ==
  [type |-> type, chars |-> { }, min |-> 0, max |-> 0, alts |-> << >>]

\* A pattern: its elements, the first and last element of its capture group
\* (<< >> when it has none) and the flag i.
Pattern(elems, group, ignoreCase) ==
  [elems |-> elems, group |-> group, ignoreCase |-> ignoreCase]

\* The character is in the class, under the flag i in either case.
InClass(c, chars, ignoreCase) ==
  \/ c \in chars
  \/ ignoreCase /\ (LowerChar(c) \in chars \/ UpperChar(c) \in chars)

\* The literal stands at this place of the text.
LiteralAt(text, pos, lit, ignoreCase) ==
  /\ pos + Len(lit) - 1 <= Len(text)
  /\ \A i \in 1..Len(lit) :
        \/ text[pos + i - 1] = lit[i]
        \/ ignoreCase /\ LowerChar(text[pos + i - 1]) = LowerChar(lit[i])

\* The characters of the class from this place on, at most max.
RECURSIVE RunLength(_, _, _, _, _)
RunLength(text, e, pos, ignoreCase, n) ==
  IF n < e.max /\ pos + n <= Len(text)
     /\ InClass(text[pos + n], e.chars, ignoreCase)
  THEN RunLength(text, e, pos, ignoreCase, n + 1)
  ELSE n

IsWordAt(text, pos) ==
  pos >= 1 /\ pos <= Len(text) /\ text[pos] \in WordChars

\* The places after the runs of a class that the engine tries: the longest
\* first, down to min characters.
RunEnds(pos, run, min) ==
  IF run < min THEN << >> ELSE [j \in 1..(run - min + 1) |-> pos + run - j + 1]

\* The places where the element can end when it starts at pos, in the order
\* in which the engine tries them.
ElemEnds(text, e, pos, ignoreCase) ==
  CASE e.type = "class" ->
         RunEnds(pos, RunLength(text, e, pos, ignoreCase, 0), e.min)
    [] e.type = "alts" ->
         LET hits == SelectSeq(e.alts,
                       LAMBDA lit : LiteralAt(text, pos, lit, ignoreCase))
         IN [j \in 1..Len(hits) |-> pos + Len(hits[j])]
    [] e.type = "wordBoundary" ->
         IF IsWordAt(text, pos - 1) # IsWordAt(text, pos) THEN << pos >>
         ELSE << >>
    [] e.type = "lineStartOrNewline" ->
         (IF pos = 1 \/ text[pos - 1] = "\n" THEN << pos >> ELSE << >>)
         \o (IF pos <= Len(text) /\ text[pos] = "\n" THEN << pos + 1 >>
             ELSE << >>)
    [] e.type = "newlineOrLineEnd" ->
         (IF pos <= Len(text) /\ text[pos] = "\n" THEN << pos + 1 >>
          ELSE << >>)
         \o (IF pos = Len(text) + 1 \/ text[pos] = "\n" THEN << pos >>
             ELSE << >>)
    [] e.type = "startOrSpace" ->
         (IF pos = 1 THEN << pos >> ELSE << >>)
         \o (IF pos <= Len(text) /\ text[pos] \in Whitespace
             THEN << pos + 1 >> ELSE << >>)
    [] e.type = "spaceOrEnd" ->
         (IF pos <= Len(text) /\ text[pos] \in Whitespace
          THEN << pos + 1 >> ELSE << >>)
         \o (IF pos = Len(text) + 1 THEN << pos >> ELSE << >>)

\* The first way through the elements from the k-th on, starting at pos:
\* << >> when there is none, else << the places after each element >>.
RECURSIVE FirstWay(_, _, _, _)
RECURSIVE TryEnds(_, _, _, _, _)
TryEnds(text, p, k, ends, j) ==
  IF j > Len(ends) THEN << >>
  ELSE LET rest == FirstWay(text, p, k + 1, ends[j])
       IN IF rest # << >> THEN << << ends[j] >> \o rest[1] >>
          ELSE TryEnds(text, p, k, ends, j + 1)

FirstWay(text, p, k, pos) ==
  IF k > Len(p.elems) THEN << << >> >>
  ELSE TryEnds(text, p, k, ElemEnds(text, p.elems[k], pos, p.ignoreCase), 1)

\* The match that starts at index with this way: match[0] and, when the
\* pattern has a group, match[1].
MatchOf(text, p, index, way) ==
  [index |-> index,
   end |-> way[Len(way)],
   full |-> SubSeq(text, index, way[Len(way)] - 1),
   group |-> IF p.group = << >> THEN << >>
             ELSE << SubSeq(text,
                            IF p.group[1] = 1 THEN index
                            ELSE way[p.group[1] - 1],
                            way[p.group[2]] - 1) >>]

\* The matches from this place on, each search starting where the match
\* before it ended; ways[s] is the first way of a match starting at s.
RECURSIVE MatchesFrom(_, _, _, _)
MatchesFrom(text, p, ways, from) ==
  LET starts == { s \in from..(Len(text) + 1) : ways[s] # << >> }
  IN IF starts = { } THEN << >>
     ELSE LET index == CHOOSE s \in starts : \A t \in starts : s <= t
          IN << MatchOf(text, p, index, ways[index][1]) >>
             \o MatchesFrom(text, p, ways,
                            IF ways[index][1][Len(ways[index][1])] = index
                            THEN index + 1
                            ELSE ways[index][1][Len(ways[index][1])])

\* Array.from(text.matchAll(pattern)) for a pattern with the flag g
matchAll(text, p) ==
  MatchesFrom(text, p,
              [s \in 1..(Len(text) + 1) |-> FirstWay(text, p, 1, s)], 1)

\* text.match(pattern) for a pattern with the flag g: the strings matched,
\* without their groups; << >> is null.
StringsMatched(matches) == [i \in 1..Len(matches) |-> matches[i].full]

match(text, p) == StringsMatched(matchAll(text, p))

\* pattern.test(text) with lastIndex 0
test(text, p) == matchAll(text, p) # << >>

\* [:\s]*
ColonsAndSpaces == Class({ ":" } \cup Whitespace, 0, Unbounded)

\* \d{4}\s*\d{4}\s*\d{4}
SpacedDigits ==
  << Class(Digits, 4, 4), Class(Whitespace, 0, Unbounded), Class(Digits, 4, 4),
     Class(Whitespace, 0, Unbounded), Class(Digits, 4, 4) >>

\* \d{2}[\/\-]\d{2}[\/\-]\d{n}
DateDigits(n) ==
  << Class(Digits, 2, 2), Class({ "/", "-" }, 1, 1), Class(Digits, 2, 2),
     Class({ "/", "-" }, 1, 1), Class(Digits, n, n) >>

AADHAAR_PATTERNS ==
  [aadhaarNumber |->
     << Pattern(<< Anchor("wordBoundary") >> \o SpacedDigits
                \o << Anchor("wordBoundary") >>, << >>, FALSE),
        Pattern(<< Anchor("wordBoundary"), Class(Digits, 4, 4),
                   Class({ "-" }, 1, 1), Class(Digits, 4, 4),
                   Class({ "-" }, 1, 1), Class(Digits, 4, 4),
                   Anchor("wordBoundary") >>, << >>, FALSE),
        Pattern(<< Anchor("wordBoundary"), Class(Digits, 12, 12),
                   Anchor("wordBoundary") >>, << >>, FALSE),
        Pattern(<< Alternatives(<< << "U", "I", "D" >>, << "A", "a", "d", "h", "a", "a", "r" >> >>),
                   Class(Whitespace, 0, Unbounded),
                   Alternatives(<< << "N", "o" >>, << "N", "u", "m", "b", "e", "r" >> >>),
                   ColonsAndSpaces >> \o SpacedDigits, << 5, 9 >>, TRUE) >>,
   name |->
     << Pattern(<< Alternatives(<< << "N", "a", "m", "e" >> >>), ColonsAndSpaces,
                   Class(UpperLetters, 1, 1),
                   Class(UpperLetters \cup Whitespace, 2, 50) >>,
                << 3, 4 >>, TRUE),
        Pattern(<< Alternatives(<< << "N", "a", "m", "e" >> >>), ColonsAndSpaces,
                   Class(Letters \cup Whitespace, 3, 50) >>, << 3, 3 >>, TRUE),
        Pattern(<< Anchor("lineStartOrNewline"), Class(UpperLetters, 1, 1),
                   Class(UpperLetters \cup Whitespace, 5, 40),
                   Anchor("newlineOrLineEnd") >>, << 2, 3 >>, FALSE) >>,
   dob |->
     << Pattern(<< Alternatives(<< << "D", "O", "B" >>, << "D", "a", "t", "e", " ", "o", "f", " ", "B", "i", "r", "t", "h" >> >>),
                   ColonsAndSpaces >> \o DateDigits(4), << 3, 7 >>, TRUE),
        Pattern(<< Alternatives(<< << "D", "O", "B" >>, << "D", "a", "t", "e", " ", "o", "f", " ", "B", "i", "r", "t", "h" >> >>),
                   ColonsAndSpaces >> \o DateDigits(2), << 3, 7 >>, TRUE),
        Pattern(<< Alternatives(<< << "B", "o", "r", "n" >> >>),
                   ColonsAndSpaces >> \o DateDigits(4), << 3, 7 >>, TRUE) >>,
   gender |->
     << Pattern(<< Alternatives(<< << "G", "e", "n", "d", "e", "r" >>, << "S", "e", "x" >> >>), ColonsAndSpaces,
                   Alternatives(<< << "M", "a", "l", "e" >>, << "F", "e", "m", "a", "l", "e" >>, << "O", "t", "h", "e", "r", "s" >>,
                                   << "M" >>, << "F" >> >>) >>, << 3, 3 >>, TRUE),
        Pattern(<< Anchor("startOrSpace"),
                   Alternatives(<< << "M", "a", "l", "e" >>, << "F", "e", "m", "a", "l", "e" >> >>),
                   Anchor("spaceOrEnd") >>, << 2, 2 >>, TRUE) >>]

AADHAAR_KEYWORDS ==
  << << "a", "a", "d", "h", "a", "a", "r" >>, << "u", "i", "d", "a", "i" >>, << "u", "n", "i", "q", "u", "e", " ", "i", "d", "e", "n", "t", "i", "f", "i", "c", "a", "t", "i", "o", "n" >>,
     << "g", "o", "v", "e", "r", "n", "m", "e", "n", "t", " ", "o", "f", " ", "i", "n", "d", "i", "a" >>, << "u", "i", "d" >>, << "e", "n", "r", "o", "l", "l", "m", "e", "n", "t" >> >>

MAX_FILE_SIZE == 5 * 1024 * 1024

MAX_PAGES == 5

(***************************************************************************)
(* AadhaarService.extractAadhaarFromPDF (src/lib/aadhaarService.ts).  A    *)
(* file is what the two PDF libraries make of it: its size, whether        *)
(* PDFDocument.load accepts it, whether getDocument opens it at each of    *)
(* the three attempts, and its pages, each with the outcome of getPage and *)
(* getTextContent and the items of its text content.  An item is           *)
(* [str |-> the string] or, for marked content, a record without str.      *)
(* A value that the code has as null is << >> and a string s that may be   *)
(* null is << s >>.                                                        *)
(***************************************************************************)
\* Variant of PagesWalked: every page of the document.
PagesWalked_All(numPages) == numPages

\* Math.min(pdf.numPages, this.MAX_PAGES)
PagesWalked(numPages) == IF numPages < MAX_PAGES THEN numPages ELSE MAX_PAGES

\* item => typeof item.str === 'string' ? item.str : ''
ItemStr(item) == IF "str" \in DOMAIN item THEN item.str ELSE << >>

\* Array.prototype.join of the strings from the k-th on
RECURSIVE join(_, _, _)
join(strings, separator, k) ==
  IF k > Len(strings) THEN << >>
  ELSE IF k = Len(strings) THEN strings[k]
  ELSE strings[k] \o separator \o join(strings, separator, k + 1)

\* textContent.items.map(...).join(' ')
PageText(page) ==
  join([k \in 1..Len(page.items) |-> ItemStr(page.items[k])], << " " >>, 1)

\* The loop over the pages from the i-th to the last one walked: a page
\* whose getPage or getTextContent throws adds nothing.
RECURSIVE WalkPages(_, _, _, _)
WalkPages(pages, i, last, fullText) ==
  IF i > last THEN fullText
  ELSE WalkPages(pages, i + 1, last,
                 IF pages[i].ok THEN fullText \o PageText(pages[i]) \o << "\n" >>
                 ELSE fullText)

ExtractTextError ==
  "Failed to extract text from PDF. The file may be corrupted or password-protected."

\* extractTextFromPDF at the given attempt
extractTextFromPDF(file, attempt) ==
  IF ~file.getDocument[attempt] THEN Throw(ExtractTextError)
  ELSE Return(trim(WalkPages(file.pages, 1, PagesWalked(Len(file.pages)),
                             << >>)))

maxRetries == 3

RetryError ==
  "Failed to extract text from PDF after multiple attempts. The file may be corrupted or password-protected."

RECURSIVE extractTextFromPDFWithRetry(_, _)
extractTextFromPDFWithRetry(file, attempt) ==
  IF extractTextFromPDF(file, attempt).ok THEN extractTextFromPDF(file, attempt)
  ELSE IF attempt = maxRetries THEN Throw(RetryError)
  ELSE extractTextFromPDFWithRetry(file, attempt + 1)

\* The keywords that the lower-cased text includes.
KeywordMatches(lowerText) ==
  { k \in 1..Len(AADHAAR_KEYWORDS) :
      includes(lowerText, toLowerCase(AADHAAR_KEYWORDS[k])) }

isAadhaarDocument(text) ==
  /\ Cardinality(KeywordMatches(toLowerCase(text))) >= 1
  /\ \E k \in 1..Len(AADHAAR_PATTERNS.aadhaarNumber) :
        test(text, AADHAAR_PATTERNS.aadhaarNumber[k])

\* The first of the values that is not null, << >> when all are.
FirstOf(found) == IF found = << >> THEN << >> ELSE found[1]

FirstFound(values) == FirstOf(SelectSeq(values, LAMBDA v : v # << >>))

\* The string found, or else what the patterns after it give.
FoundOrElse(found, rest) == IF found # << >> THEN found[1] ELSE rest

\* (match[1] || match[0]).replace(/[\s\-]/g, '')
CleanNumber(m) ==
  SelectSeq(IF m.group # << >> /\ m.group[1] # << >> THEN m.group[1]
            ELSE m.full,
            LAMBDA c : c \notin Whitespace \cup { "-" })

\* What each match gives for the number: the cleaned string when it is 12
\* digits.
NumbersIn(matches) ==
  [i \in 1..Len(matches) |->
     IF aadhaarRegexTest(CleanNumber(matches[i]))
     THEN << CleanNumber(matches[i]) >> ELSE << >>]

\* details.aadhaarNumber after the loop over the patterns from the k-th on
RECURSIVE ExtractedNumber(_, _)
ExtractedNumber(text, k) ==
  IF k > Len(AADHAAR_PATTERNS.aadhaarNumber) THEN << >>
  ELSE FoundOrElse(FirstFound(NumbersIn(
                     matchAll(text, AADHAAR_PATTERNS.aadhaarNumber[k]))),
                   ExtractedNumber(text, k + 1))

\* .replace(/\s+/g, ' ')
CollapseWhitespace(s) ==
  LET kept == SelectSeq([i \in 1..Len(s) |-> i],
                        LAMBDA i : \/ ~IsWhitespace(s[i])
                                   \/ i = 1
                                   \/ ~IsWhitespace(s[i - 1]))
  IN [j \in 1..Len(kept) |->
        IF IsWhitespace(s[kept[j]]) THEN " " ELSE s[kept[j]]]

\* name.trim().replace(/\s+/g, ' ').replace(/[^\w\s]/g, '').toUpperCase()
CleanedName(name) ==
  toUpperCase(SelectSeq(CollapseWhitespace(trim(name)),
                        LAMBDA c : c \in WordChars \cup Whitespace))

\* The test of cleanAndValidateName on the cleaned name.
NameIsValid(cleaned) ==
  /\ Len(cleaned) >= 3 /\ Len(cleaned) <= 50
  /\ \A i \in 1..Len(cleaned) : cleaned[i] \in UpperLetters \cup Whitespace
  /\ ~includes(cleaned, << "A", "A", "D", "H", "A", "A", "R" >>)
  /\ ~includes(cleaned, << "G", "O", "V", "E", "R", "N", "M", "E", "N", "T" >>)
  /\ Len(SelectSeq(cleaned, LAMBDA c : c = " ")) + 1 <= 5

cleanAndValidateName(name) ==
  IF NameIsValid(CleanedName(name)) THEN << CleanedName(name) >> ELSE << >>

\* What each match gives for the name.
NamesIn(matches) ==
  [i \in 1..Len(matches) |->
     IF /\ matches[i].group # << >>
        /\ matches[i].group[1] # << >>
        /\ Len(trim(matches[i].group[1])) > 2
     THEN cleanAndValidateName(matches[i].group[1]) ELSE << >>]

\* details.name after the loop over the patterns from the k-th on
RECURSIVE ExtractedName(_, _)
ExtractedName(text, k) ==
  IF k > Len(AADHAAR_PATTERNS.name) THEN << >>
  ELSE FoundOrElse(FirstFound(NamesIn(
                     matchAll(text, AADHAAR_PATTERNS.name[k]))),
                   ExtractedName(text, k + 1))

\* new Date().getFullYear()
CurrentYear == 2026

IsDateShape(s, yearDigits) ==
  /\ Len(s) = 6 + yearDigits
  /\ s[3] \in { "/", "-" } /\ s[6] \in { "/", "-" }
  /\ \A i \in (1..Len(s)) \ { 3, 6 } : s[i] \in Digits

\* The date of validateAndFormatDate once a format has matched.
FormattedDate(day, month, fullYear) ==
  IF /\ NumberValue(day) >= 1 /\ NumberValue(day) <= 31
     /\ NumberValue(month) >= 1 /\ NumberValue(month) <= 12
     /\ NumberValue(fullYear) >= 1900 /\ NumberValue(fullYear) <= CurrentYear
  THEN << day \o << "/" >> \o month \o << "/" >> \o fullYear >>
  ELSE << >>

\* A string that matches the first format does not match the second, and
\* one that fails the test under the one format it matches returns null.
validateAndFormatDate(dateStr) ==
  IF IsDateShape(trim(dateStr), 4)
  THEN FormattedDate(SubSeq(trim(dateStr), 1, 2), SubSeq(trim(dateStr), 4, 5),
                     SubSeq(trim(dateStr), 7, 10))
  ELSE IF IsDateShape(trim(dateStr), 2)
  THEN FormattedDate(SubSeq(trim(dateStr), 1, 2), SubSeq(trim(dateStr), 4, 5),
                     << "1", "9" >> \o SubSeq(trim(dateStr), 7, 8))
  ELSE << >>

\* What text.match(pattern) gives to `match && match[1]`: of a pattern with
\* the flag g the array holds the strings matched, and match[1] is the
\* second of them.
SecondOf(matched) ==
  IF Len(matched) >= 2 /\ matched[2] # << >> THEN << matched[2] >> ELSE << >>

\* details.dob after the loop over the patterns from the k-th on: << >> when
\* it was never assigned.
RECURSIVE ExtractedDob(_, _)
ExtractedDob(text, k) ==
  IF k > Len(AADHAAR_PATTERNS.dob) THEN << >>
  ELSE IF /\ SecondOf(match(text, AADHAAR_PATTERNS.dob[k])) # << >>
          /\ validateAndFormatDate(
               SecondOf(match(text, AADHAAR_PATTERNS.dob[k]))[1]) # << >>
  THEN validateAndFormatDate(SecondOf(match(text, AADHAAR_PATTERNS.dob[k]))[1])
  ELSE ExtractedDob(text, k + 1)

normalizeGender(gender) ==
  LET normalized == trim(toLowerCase(gender))
  IN IF \/ includes(normalized, << "m", "a", "l", "e" >>) /\ ~includes(normalized, << "f", "e", "m", "a", "l", "e" >>)
        \/ normalized = << "m" >>
     THEN << << "M", "a", "l", "e" >> >>
     ELSE IF includes(normalized, << "f", "e", "m", "a", "l", "e" >>) \/ normalized = << "f" >>
     THEN << << "F", "e", "m", "a", "l", "e" >> >>
     ELSE IF includes(normalized, << "o", "t", "h", "e", "r" >>) THEN << << "O", "t", "h", "e", "r", "s" >> >>
     ELSE << >>

\* details.gender after the loop over the patterns from the k-th on:
\* assigned is << >> while the member was never assigned, and << value >>,
\* the value being null or a string, once it was.
RECURSIVE ExtractedGender(_, _, _)
ExtractedGender(text, k, assigned) ==
  IF k > Len(AADHAAR_PATTERNS.gender) THEN assigned
  ELSE IF SecondOf(match(text, AADHAAR_PATTERNS.gender[k])) = << >>
  THEN ExtractedGender(text, k + 1, assigned)
  ELSE IF normalizeGender(
            SecondOf(match(text, AADHAAR_PATTERNS.gender[k]))[1]) # << >>
  THEN << normalizeGender(
            SecondOf(match(text, AADHAAR_PATTERNS.gender[k]))[1]) >>
  ELSE ExtractedGender(text, k + 1, << << >> >>)

\* The object with the members that were assigned.
DetailsOf(name, aadhaarNumber, dob, gender) ==
  IF dob = << >> /\ gender = << >>
  THEN [name |-> name, aadhaarNumber |-> aadhaarNumber]
  ELSE IF gender = << >>
  THEN [name |-> name, aadhaarNumber |-> aadhaarNumber, dob |-> dob[1]]
  ELSE IF dob = << >>
  THEN [name |-> name, aadhaarNumber |-> aadhaarNumber, gender |-> gender[1]]
  ELSE [name |-> name, aadhaarNumber |-> aadhaarNumber, dob |-> dob[1],
        gender |-> gender[1]]

parseAadhaarDetailsEnhanced(text) ==
  DetailsOf(ExtractedName(text, 1), ExtractedNumber(text, 1),
            ExtractedDob(text, 1), ExtractedGender(text, 1, << >>))

validateExtractedDetails(details) ==
  IF ~aadhaarRegexTest(details.aadhaarNumber)
  THEN Throw("Invalid Aadhaar number format extracted")
  ELSE IF Len(details.name) < 2 \/ Len(details.name) > 50
  THEN Throw("Invalid name format extracted")
  ELSE Return(details)

\* The message of the error that PDFDocument.load throws.
LoadError == "Failed to parse PDF document"

verifyPDFIntegrity(file) ==
  IF ~file.loads THEN Throw(LoadError)
  ELSE IF Len(file.pages) = 0 THEN Throw("Invalid PDF: No pages found")
  ELSE IF Len(file.pages) > MAX_PAGES
  THEN Throw("Invalid Aadhaar PDF: Too many pages. Aadhaar documents typically have 1-2 pages.")
  ELSE Return(<< >>)

NotAadhaarError ==
  "This does not appear to be a valid Aadhaar document. Please upload an official Aadhaar PDF from UIDAI."

RequiredDetailsError ==
  "Could not extract required Aadhaar details (Name and Aadhaar Number). Please ensure the PDF is clear and readable."

\* extractAadhaarFromPDF from the details on
CheckedDetails(details) ==
  IF Falsy(details.name) \/ Falsy(details.aadhaarNumber)
  THEN Throw(RequiredDetailsError)
  ELSE validateExtractedDetails(details)

\* extractAadhaarFromPDF from the outcome of extractTextFromPDFWithRetry on
DetailsFromText(text) ==
  IF ~text.ok THEN text
  ELSE IF ~isAadhaarDocument(text.value) THEN Throw(NotAadhaarError)
  ELSE CheckedDetails(parseAadhaarDetailsEnhanced(text.value))

extractAadhaarFromPDF(file) ==
  IF file.size > MAX_FILE_SIZE
  THEN Throw("File too large. Aadhaar PDFs should be under 5MB.")
  ELSE IF ~verifyPDFIntegrity(file).ok THEN verifyPDFIntegrity(file)
  ELSE DetailsFromText(extractTextFromPDFWithRetry(file, 1))

(***************************************************************************)
(* The files handed to the extraction, and the calls.                      *)
(***************************************************************************)
FailedPage == [ok |-> FALSE, items |-> << >>]

Page(items) == [ok |-> TRUE, items |-> items]

Item(str) == [str |-> str]

\* An item of marked content: it has no str.
MarkedContent == [type |-> "beginMarkedContent"]

FrontPage ==
  Page(<< Item(<< "G", "o", "v", "e", "r", "n", "m", "e", "n", "t", " ", "o", "f", " ", "I", "n", "d", "i", "a" >>), Item(<< "N", "a", "m", "e", ":", " ", "R", "a", "v", "i", " ", "K", "u", "m", "a", "r" >>),
          Item(<< "D", "O", "B", ":", " ", "0", "1", "/", "0", "1", "/", "1", "9", "9", "0" >>), Item(<< "G", "e", "n", "d", "e", "r", ":", " ", "M" >>) >>)

NumberPage ==
  Page(<< MarkedContent, Item(<< "U", "I", "D", "A", "I" >>), Item(<< "1", "2", "3", "4", " ", "5", "6", "7", "8", " ", "9", "0", "1", "2" >>),
          Item(<< "G", "e", "n", "d", "e", "r", ":", " ", "M" >>) >>)

NameLinePage == Page(<< Item(<< "R", "A", "V", "I", " ", "K", "U", "M", "A", "R" >>) >>)

InvoicePage ==
  Page(<< Item(<< "I", "n", "v", "o", "i", "c", "e", " ", "4", "2" >>),
          Item(<< "1", "2", "3", "4", "-", "5", "6", "7", "8", "-", "9", "0",
                  "1", "2" >>) >>)

GenderPage == Page(<< Item(<< "G", "e", "n", "d", "e", "r", ":", " ", "M", "a", "l", "e" >>), Item(<< "D", "O", "B", ":", " ", "0", "1", "/", "0", "1", "/", "1", "9", "9", "0" >>) >>)

ExtractPages ==
  { FailedPage, FrontPage, NumberPage, NameLinePage, InvoicePage, GenderPage }

\* The files hold at most this many pages, but for the two long ones.
MaxFilePages == 3

LongFiles ==
  { << NumberPage, FailedPage, NameLinePage, InvoicePage, FrontPage,
       GenderPage >>,
    << FrontPage, NumberPage, InvoicePage, FailedPage, FailedPage,
       NameLinePage >> }

PageLists ==
  UNION { [1..n -> ExtractPages] : n \in 0..MaxFilePages } \cup LongFiles

File(size, loads, getDocument, pages) ==
  [size |-> size, loads |-> loads, getDocument |-> getDocument, pages |-> pages]

\* getDocument opens the file at every attempt.
Opens == << TRUE, TRUE, TRUE >>

Files ==
  { File(1024, TRUE, Opens, pages) : pages \in PageLists }
  \cup { File(size, TRUE, Opens, << FrontPage, NumberPage >>) :
           size \in { MAX_FILE_SIZE, MAX_FILE_SIZE + 1 } }
  \cup { File(1024, FALSE, Opens, << FrontPage, NumberPage >>) }
  \cup { File(1024, TRUE, getDocument, << FrontPage, NumberPage >>) :
           getDocument \in { << FALSE, FALSE, FALSE >>, << FALSE, TRUE, TRUE >>,
                             << FALSE, FALSE, TRUE >> } }

NoResult == Throw("")

\* The call of the extraction: the file, and what the call returned or
\* threw; of extractAadhaarFromPDF also the text it got from
\* extractTextFromPDFWithRetry, when it came that far.  A call keeps nothing
\* for the next one, so a behaviour holds one call.
ExtractionCall(op, file, text, details) ==
  [op |-> op, file |-> file, text |-> text, details |-> details]

ExtractTextFromPDF ==
  \E file \in Files :
    /\ extraction = ExtractionIdle
    /\ extraction' = ExtractionCall("extractTextFromPDF", file,
                                    extractTextFromPDF(file, 1), NoResult)

ExtractAadhaarFromPDF ==
  \E file \in Files :
    /\ extraction = ExtractionIdle
    /\ extraction' =
         ExtractionCall("extractAadhaarFromPDF", file,
                        IF /\ file.size <= MAX_FILE_SIZE
                           /\ verifyPDFIntegrity(file).ok
                        THEN extractTextFromPDFWithRetry(file, 1) ELSE NoResult,
                        extractAadhaarFromPDF(file))

InitExtract ==
  /\ RecoveryInit
  /\ crypto = CryptoIdle
  /\ VaultIdle
  /\ ClientIdle

NextExtract ==
  /\ \/ ExtractTextFromPDF
     \/ ExtractAadhaarFromPDF
  /\ UNCHANGED << recoveryVars, crypto, vaultVars, session, tabs, setup >>

SpecExtract == InitExtract /\ [][NextExtract]_vars

(***************************************************************************)
(* The claims on the extraction                                            *)
(***************************************************************************)
\* The pages among the first five of the file whose text was read.
PagesRead(file) ==
  SelectSeq(SubSeq(file.pages, 1,
                   IF Len(file.pages) <= 5 THEN Len(file.pages) ELSE 5),
            LAMBDA page : page.ok)

\* The texts of the pages one after the other, each closed by a line break.
RECURSIVE TextOfPages(_)
TextOfPages(pages) ==
  IF pages = << >> THEN << >>
  ELSE PageText(Head(pages)) \o << "\n" >> \o TextOfPages(Tail(pages))

FieldsNamed(error) ==
  CASE error = RequiredDetailsError -> { "name", "aadhaarNumber" }
    [] error = "Invalid Aadhaar number format extracted" -> { "aadhaarNumber" }
    [] error = "Invalid name format extracted" -> { "name" }
    [] OTHER -> { }

\* The required fields that the patterns do not locate in the text.
FieldsNotLocated(text) ==
  { f \in { "aadhaarNumber" } :
      \A k \in 1..Len(AADHAAR_PATTERNS.aadhaarNumber) :
         ~test(text, AADHAAR_PATTERNS.aadhaarNumber[k]) }
  \cup { f \in { "name" } : ExtractedName(text, 1) = << >> }

\* C25: when a required field cannot be located in the text, extraction
\* fails with an error that names a field it could not locate, and a text
\* without any pattern of the number fails with an error that names the
\* number.
C25_ErrorNamesFieldNotLocated ==
  /\ extraction.op = "extractAadhaarFromPDF"
  /\ extraction.text.ok
  /\ FieldsNotLocated(extraction.text.value) # { }
  => /\ ~extraction.details.ok
     /\ FieldsNamed(extraction.details.error)
          \cap FieldsNotLocated(extraction.text.value) # { }
     /\ "aadhaarNumber" \in FieldsNotLocated(extraction.text.value)
        => "aadhaarNumber" \in FieldsNamed(extraction.details.error)

\* The values of gender that passed normalizeGender.
Genders == { << "M", "a", "l", "e" >>, << "F", "e", "m", "a", "l", "e" >>, << "O", "t", "h", "e", "r", "s" >> }

\* C24: a record returned by extractAadhaarFromPDF has a name that is not
\* empty and passes the name validator and a number of exactly 12 digits;
\* the call fails whenever the name or the number is not located and
\* validated; dob and gender are in the record only with a value that
\* passed their validation.
C24_NoGuessedOrEmptyField ==
  extraction.op = "extractAadhaarFromPDF"
  => /\ extraction.details.ok
        => /\ extraction.details.value.name # << >>
           /\ NameIsValid(extraction.details.value.name)
           /\ aadhaarRegexTest(extraction.details.value.aadhaarNumber)
           /\ "dob" \in DOMAIN extraction.details.value
              => validateAndFormatDate(extraction.details.value.dob)
                 = << extraction.details.value.dob >>
           /\ "gender" \in DOMAIN extraction.details.value
              => \E gender \in Genders :
                    extraction.details.value.gender = << gender >>
     /\ /\ extraction.text.ok
        /\ \/ ExtractedName(extraction.text.value, 1) = << >>
           \/ ExtractedNumber(extraction.text.value, 1) = << >>
        => ~extraction.details.ok

====
